---- MODULE Spec2Model ----
(***************************************************************************)
(* protosnirk front end: the name resolver (NameIdentifier), the           *)
(* expression type checker (ExprTypeChecker) and the compile pipeline      *)
(* that sequences the passes (pipeline/mod.rs).                            *)
(*                                                                         *)
(* The unit under compilation is produced statement by statement: each     *)
(* visitor handler is one action, and the handler's arguments (a function  *)
(* declaration's parameters, a statement's expression) are drawn from      *)
(* bounded sets.  The nesting of check_block calls is the variable depth.  *)
(***************************************************************************)
EXTENDS Integers, Sequences, FiniteSets, TLC

VARIABLES
  stage,       \* position of the driver
  result,      \* what the driver returned: [kind, errors]
  passes,      \* the passes run so far, in order
  items,       \* the function names of the unit's items, in source order
  item_ix,     \* number of items check_unit has handed to check_item
  in_fn,       \* TRUE while check_fn_declaration is in its statement loop
  depth,       \* number of check_block calls on the call stack
  current_id,  \* NameIdentifier.current_id, the ScopedId cursor
  scopes,      \* ScopeBuilder: stack of name -> ScopedId tables
  errors,      \* ErrorCollector: the errors added so far
  budget,      \* statements the unit may still contain
  blocks,      \* blocks the unit may still contain
  rechecks,    \* repeated check_fn_declaration calls still allowed
  fn_decl,     \* the function declaration check_item was last called with
  last,        \* the AST node handled by the latest handler, as annotated
  given,       \* every ScopedId snapshotted for a parameter or a declaration
  env,         \* the lexical bindings of the unit's text (per open scope)
  discarded,   \* the bindings of the blocks already left: [name, id]
  tc,          \* ExprTypeChecker and its TypeScopeBuilder
  mc           \* ModuleCompiler: ir_code, the function's basic blocks, allocas

vars == <<stage, result, passes, items, item_ix, in_fn, depth,
          current_id, scopes, errors, budget, blocks, rechecks, fn_decl, last,
          given, env, discarded, tc, mc>>

(***************************************************************************)
(* Bounds                                                                  *)
(***************************************************************************)
MaxItems == 2       \* function declarations in a unit
MaxStmts == 2       \* declarations and expression statements in a unit
MaxBlocks == 1      \* blocks in a unit
MaxRechecks == 1    \* repeated visits of a function declaration

FnNames == {"f", "g"}
VarNames == {"x", "y"}
Names == FnNames \cup VarNames

(***************************************************************************)
(* ScopedId                                                                *)
(***************************************************************************)
Default == <<0>>
None == <<>>

push(id) == Append(id, 0)
pop(id) == SubSeq(id, 1, Len(id) - 1)
increment(id) == [id EXCEPT ![Len(id)] = @ + 1]

(***************************************************************************)
(* ScopeBuilder                                                            *)
(***************************************************************************)
EmptyScope == [n \in Names |-> None]

new_scope(s) == Append(s, EmptyScope)
pop_scope(s) == SubSeq(s, 1, Len(s) - 1)
define_local(s, n, id) == [s EXCEPT ![Len(s)][n] = id]

Bound(s, n) == {i \in 1..Len(s) : s[i][n] # None}
Innermost(S) == CHOOSE i \in S : \A j \in S : j <= i
get(s, n) == IF Bound(s, n) = {} THEN None ELSE s[Innermost(Bound(s, n))][n]

(***************************************************************************)
(* The AST                                                                 *)
(***************************************************************************)
Lit == [k |-> "lit", v |-> "float"]
Var(n) == [k |-> "var", name |-> n, id |-> Default]
Arg(n, implicit, e) == [name |-> n, implicit |-> implicit, e |-> e]
Call(n, form, args) ==
  [k |-> "call", name |-> n, id |-> Default, form |-> form, args |-> args]

\* the expressions a statement may hold; calls name g, which the unit
\* declares or not
Atoms == {Lit} \cup {Var(n) : n \in VarNames}
ArgLists ==
  {<<>>, <<Arg("x", TRUE, Var("x"))>>,
   <<Arg("x", FALSE, Lit), Arg("y", FALSE, Var("x"))>>}
Calls ==
  {Call("g", "single", <<Arg("", FALSE, Var("x"))>>)}
    \cup {Call("g", "args", as) : as \in ArgLists}
Exprs == Atoms \cup Calls
Initializers == {Lit, Var("x")}

NoNode == [k |-> "none"]

Error(msg, n) == [msg |-> msg, name |-> n]

(***************************************************************************)
(* Item identification, which runs before NameIdentifier: the first        *)
(* declaration of a function name gets an id and is defined in the global  *)
(* scope, a later declaration of the same name keeps the default id.       *)
(***************************************************************************)
FirstOf(its, i) == \A j \in 1..(i - 1) : its[j] # its[i]
ItemId(its, i) == IF FirstOf(its, i) THEN <<1, i - 1>> ELSE Default
GlobalScope(its) ==
  [n \in Names |->
     IF \E i \in 1..Len(its) : its[i] = n
     THEN ItemId(its, CHOOSE i \in 1..Len(its) : its[i] = n /\ FirstOf(its, i))
     ELSE None]

(***************************************************************************)
(* NameIdentifier: expressions                                             *)
(***************************************************************************)
check_var_ref(var_ref, s) ==
  IF get(s, var_ref.name) # None
  THEN [var_ref EXCEPT !.id = get(s, var_ref.name)]
  ELSE var_ref

RECURSIVE check_expression(_, _, _)
RECURSIVE check_call_args(_, _, _)

\* the argument loop of check_fn_call; yields [args, errors]
check_call_args(args, s, errs) ==
  IF args = <<>> THEN [args |-> <<>>, errors |-> errs]
  ELSE LET a == Head(args)
           r == IF a.implicit
                THEN [e |-> check_var_ref(a.e, s), errors |-> errs]
                ELSE check_expression(a.e, s, errs)
           rest == check_call_args(Tail(args), s, r.errors)
       IN [args |-> <<[a EXCEPT !.e = r.e]>> \o rest.args,
           errors |-> rest.errors]

\* yields [e, errors]
check_fn_call(call, s, errs) ==
  IF get(s, call.name) # None
  THEN LET r == check_call_args(call.args, s, errs)
       IN [e |-> [call EXCEPT !.id = get(s, call.name), !.args = r.args],
           errors |-> r.errors]
  ELSE [e |-> call,
        errors |-> Append(errs, Error("Unknown function", call.name))]

\* yields [e, errors]
check_expression(e, s, errs) ==
  CASE e.k = "var" -> [e |-> check_var_ref(e, s), errors |-> errs]
    [] e.k = "call" -> check_fn_call(e, s, errs)
    [] OTHER -> [e |-> e, errors |-> errs]

(***************************************************************************)
(* NameIdentifier: declarations, blocks, functions.  The checker state is  *)
(* st = [current_id, scopes, errors]; a handler yields [st, node] plus     *)
(* the ids it snapshotted.                                                 *)
(***************************************************************************)
\* check_declaration that allocates and defines the binding before it
\* resolves the initializer
check_declaration_binds_first(st, decl) ==
  IF get(st.scopes, decl.name) # None
  THEN LET r == check_expression(decl.value, st.scopes, st.errors)
       IN [st |-> [st EXCEPT !.errors =
                     Append(r.errors, Error("Variable already declared", decl.name))],
           node |-> [decl EXCEPT !.value = r.e], decl_id |-> None]
  ELSE LET bound == define_local(st.scopes, decl.name, st.current_id)
           r == check_expression(decl.value, bound, st.errors)
       IN [st |-> [st EXCEPT !.errors = r.errors,
                             !.current_id = increment(st.current_id)],
           node |-> [decl EXCEPT !.value = r.e], decl_id |-> st.current_id]

\* check_declaration without the increment of the cursor
check_declaration_keeps_cursor(st, decl) ==
  LET r == check_expression(decl.value, st.scopes, st.errors)
      node == [decl EXCEPT !.value = r.e]
  IN IF get(st.scopes, decl.name) # None
     THEN [st |-> [st EXCEPT !.errors =
                     Append(r.errors, Error("Variable already declared", decl.name))],
           node |-> node, decl_id |-> None]
     ELSE [st |-> [st EXCEPT !.errors = r.errors],
           node |-> node, decl_id |-> st.current_id]

\* decl_id is the handler's local of that name, None when it returned early
check_declaration(st, decl) ==
  LET r == check_expression(decl.value, st.scopes, st.errors)
      node == [decl EXCEPT !.value = r.e]
  IN IF get(st.scopes, decl.name) # None
     THEN [st |-> [st EXCEPT !.errors =
                     Append(r.errors, Error("Variable already declared", decl.name))],
           node |-> node, decl_id |-> None]
     ELSE [st |-> [st EXCEPT !.errors = r.errors,
                             !.current_id = increment(st.current_id)],
           node |-> node, decl_id |-> st.current_id]

check_block_enter(st) ==
  [st EXCEPT !.current_id = push(st.current_id),
             !.scopes = new_scope(st.scopes)]

\* check_block without the closing increment of the cursor
check_block_exit_keeps_cursor(st) ==
  [st EXCEPT !.scopes = pop_scope(st.scopes),
             !.current_id = pop(st.current_id)]

check_block_exit(st) ==
  [st EXCEPT !.scopes = pop_scope(st.scopes),
             !.current_id = increment(pop(st.current_id))]

\* check_block on a whole block: the statements between entry and exit are
\* handled in order, a nested block by check_block itself; yields the state
\* on return and the ids snapshotted inside the block, in order.  Each
\* intermediate state is bound once, as the element of a singleton.
RECURSIVE check_block(_, _), check_statements(_, _, _)
check_statements(st, stmts, i) ==
  IF i > Len(stmts) THEN [st |-> st, given |-> <<>>]
  ELSE LET s == stmts[i]
           statement(t) ==
             CASE s.k = "decl" ->
                    LET d == check_declaration(t, s)
                    IN [st |-> d.st,
                        given |-> IF d.decl_id # None
                                  THEN <<d.decl_id>> ELSE <<>>]
               [] s.k = "expr" ->
                    LET x == check_expression(s.value, t.scopes, t.errors)
                    IN [st |-> [t EXCEPT !.errors = x.errors],
                        given |-> <<>>]
               [] s.k = "block" -> check_block(t, s)
       IN CHOOSE out \in
            {[st |-> rest.st, given |-> r.given \o rest.given] :
               <<r, rest>> \in
                 UNION {{<<r0, rest0>> :
                           rest0 \in {check_statements(r0.st, stmts, i + 1)}} :
                        r0 \in {statement(t) : t \in {st}}}} : TRUE
check_block(st, block) ==
  CHOOSE out \in
    {[st |-> check_block_exit(r.st), given |-> r.given] :
       r \in {check_statements(check_block_enter(t), block.stmts, 1) :
                t \in {st}}} : TRUE

RECURSIVE check_params(_, _, _)
\* the parameter loop of check_fn_declaration; yields [st, params]
check_params(st, params, done) ==
  IF params = <<>> THEN [st |-> st, params |-> done]
  ELSE LET param == Head(params) IN
       IF get(st.scopes, param.name) # None
       THEN check_params(
              [st EXCEPT !.errors =
                 Append(@, Error("Argument already declared", param.name))],
              Tail(params), Append(done, param))
       ELSE check_params(
              [st EXCEPT !.current_id = increment(st.current_id),
                         !.scopes = define_local(st.scopes, param.name,
                                                 st.current_id)],
              Tail(params),
              Append(done, [param EXCEPT !.id = st.current_id]))

\* check_fn_declaration without the test of the declaration's id
check_fn_declaration_unguarded(st, fn) ==
  LET r == check_params(
             [st EXCEPT !.current_id = push(fn.id),
                        !.scopes = new_scope(st.scopes)],
             fn.params, <<>>)
  IN [st |-> r.st, node |-> [fn EXCEPT !.params = r.params],
      entered |-> TRUE]

\* up to the statement loop; yields [st, node, entered]
check_fn_declaration(st, fn) ==
  IF fn.id = Default
  THEN [st |-> st, node |-> fn, entered |-> FALSE]
  ELSE LET r == check_params(
                  [st EXCEPT !.current_id = push(fn.id),
                             !.scopes = new_scope(st.scopes)],
                  fn.params, <<>>)
       IN [st |-> r.st, node |-> [fn EXCEPT !.params = r.params],
           entered |-> TRUE]

check_unit_enter(id) == push(increment(id))
check_unit_exit(id) == pop(id)


(***************************************************************************)
(* ExprTypeChecker over the TypeScopeBuilder.  A TypeId is [t, ix]: a      *)
(* fresh id carries its serial number, the id of a binding carries the     *)
(* binding's ScopedId.  The checker state is [var_type_id, fresh, types,   *)
(* equations, sources] for the TypeScopeBuilder side and [current_type,    *)
(* return_ty_id, lvalue_ty_id, inferences] for the TypeGraph side.         *)
(***************************************************************************)
NoType == [t |-> "none", ix |-> <<>>]
\* NodeIndex::default(), the TypeGraph index current_type starts with
NoIndex == [t |-> "index", ix |-> <<>>]
NewChecker ==
  [var_type_id |-> NoType, fresh |-> 0, types |-> {}, equations |-> <<>>,
   sources |-> <<>>, current_type |-> NoIndex, return_ty_id |-> NoType,
   lvalue_ty_id |-> <<>>, inferences |-> <<>>, aborted |-> FALSE]

\* unreachable!: the pass panics; nothing is added to the tables afterwards
unreachable(c) == [c EXCEPT !.aborted = TRUE]

fresh_id(c) == [t |-> "fresh", ix |-> <<c.fresh + 1>>]
get_id(scoped_id) == [t |-> "var", ix |-> scoped_id]
Known(prim) == [t |-> "Known", prim |-> prim]
FnType(params, ret) == [t |-> "Fn", params |-> params, ret |-> ret]
add_equation(c, lhs, rhs) ==
  IF c.aborted THEN c ELSE
  [c EXCEPT !.equations = Append(@, [lhs |-> lhs, rhs |-> rhs])]
add_source(c, ty, source) ==
  IF c.aborted THEN c ELSE
  [c EXCEPT !.sources = Append(@, [ty |-> ty, source |-> source])]
Variable(ty) == [t |-> "Variable", ty |-> ty]
BoolType == [t |-> "named", name |-> "bool"]
add_inference(c, from, to, source) ==
  IF c.aborted THEN c ELSE
  [c EXCEPT !.inferences = Append(@, [from |-> from, to |-> to, source |-> source])]
\* an add_equation followed by the add_source on its left side
constrain(c, lhs, rhs, source) == add_source(add_equation(c, lhs, rhs), lhs, source)
insert(params, n, ty) ==
  {p \in params : p.name # n} \cup {[name |-> n, ty |-> ty]}

visit_var_ref(c, ident) ==
  IF ident.id = Default THEN c
  ELSE [c EXCEPT !.types = @ \cup {ident.id},
                 !.var_type_id = get_id(ident.id)]

\* visit_literal_expr without the final store to var_type_id
visit_literal_expr_keeps_result(c, literal) ==
  LET literal_type_id == fresh_id(c)
      prim == CASE literal.v = "bool" -> "Bool"
                [] literal.v = "float" -> "Int"
                [] OTHER -> "Unary"
      c1 == add_equation([c EXCEPT !.fresh = @ + 1], literal_type_id, Known(prim))
  IN add_source(c1, literal_type_id, "LiteralValue")

visit_literal_expr(c, literal) ==
  LET literal_type_id == fresh_id(c)
      prim == CASE literal.v = "bool" -> "Bool"
                [] literal.v = "float" -> "Int"
                [] OTHER -> "Unary"
      c1 == add_equation([c EXCEPT !.fresh = @ + 1], literal_type_id, Known(prim))
  IN [add_source(c1, literal_type_id, "LiteralValue")
        EXCEPT !.var_type_id = literal_type_id]

RECURSIVE visit_expression(_, _)
RECURSIVE visit_call_args(_, _, _)

\* the argument loops of visit_fn_call; yields [c, params]
visit_call_args(c, args, params) ==
  IF args = <<>> THEN [c |-> c, params |-> params]
  ELSE LET a == Head(args)
           c1 == IF a.implicit THEN visit_var_ref(c, a.e)
                 ELSE visit_expression(c, a.e)
           arg_id == c1.var_type_id
       IN visit_call_args(add_source(c1, arg_id, "CallArgument"), Tail(args),
                          insert(params, a.name, arg_id))

\* visit_fn_call without the test of the call's id
visit_fn_call_unguarded(c, fn_call) ==
  LET result_id == fresh_id(c)
      r == visit_call_args([c EXCEPT !.fresh = @ + 1], fn_call.args, {})
      fn_id == get_id(fn_call.id)
      c2 == add_equation([r.c EXCEPT !.types = @ \cup {fn_call.id}],
                         fn_id, FnType(r.params, result_id))
  IN [add_source(c2, result_id, "CallReturnType")
        EXCEPT !.var_type_id = result_id]

\* visit_fn_call with the result id as the left side of the equation
visit_fn_call_on_result(c, fn_call) ==
  IF fn_call.id = Default THEN c
  ELSE LET result_id == fresh_id(c)
           r == visit_call_args([c EXCEPT !.fresh = @ + 1], fn_call.args, {})
           c2 == add_equation([r.c EXCEPT !.types = @ \cup {fn_call.id}],
                              result_id, FnType(r.params, result_id))
       IN [add_source(c2, result_id, "CallReturnType")
             EXCEPT !.var_type_id = result_id]

visit_fn_call(c, fn_call) ==
  IF fn_call.id = Default THEN c
  ELSE LET result_id == fresh_id(c)
           r == visit_call_args([c EXCEPT !.fresh = @ + 1], fn_call.args, {})
           fn_id == get_id(fn_call.id)
           c2 == add_equation([r.c EXCEPT !.types = @ \cup {fn_call.id}],
                              fn_id, FnType(r.params, result_id))
       IN [add_source(c2, result_id, "CallReturnType")
             EXCEPT !.var_type_id = result_id]

\* visit_if_expr without the equation between the branches
visit_if_expr_no_agreement(c, if_expr) ==
  LET c1 == visit_expression([c EXCEPT !.var_type_id = NoType], if_expr.cond)
      cond_ty == c1.var_type_id
      c2 == constrain(c1, cond_ty, Known("Bool"), "IfConditionalBool")
      c3 == visit_expression(c2, if_expr.true_expr)
      left_ty_id == c3.var_type_id
      c4 == visit_expression(c3, if_expr.else_)
      right_ty_id == c4.var_type_id
  IN add_source(add_source(c4, left_ty_id, "IfBranchesSame"),
                right_ty_id, "IfBranchesSame")

visit_if_expr(c, if_expr) ==
  LET c1 == visit_expression([c EXCEPT !.var_type_id = NoType], if_expr.cond)
      cond_ty == c1.var_type_id
      c2 == constrain(c1, cond_ty, Known("Bool"), "IfConditionalBool")
      c3 == visit_expression(c2, if_expr.true_expr)
      left_ty_id == c3.var_type_id
      c4 == visit_expression(c3, if_expr.else_)
      right_ty_id == c4.var_type_id
      c5 == constrain(c4, left_ty_id, Variable(right_ty_id), "IfBranchesSame")
  IN add_source(c5, right_ty_id, "IfBranchesSame")

\* Operator::Subtraction | Operator::Addition; any other operator is
\* unreachable!() and is no input of the model
\* visit_unary_op with an arm for every operator but Custom
visit_unary_op_every_operator(c, unary_op) ==
  LET c1 == visit_expression(c, unary_op.inner)
      inner_type_id == c1.var_type_id
      c2 == constrain(c1, inner_type_id, Known("Int"), "NumericOperator")
      expr_type_id == fresh_id(c2)
      c3 == constrain([c2 EXCEPT !.fresh = @ + 1], expr_type_id, Known("Int"),
                      "NumericOperator")
  IN IF unary_op.op = "Custom" THEN unreachable(c)
     ELSE IF c1.aborted THEN c1
     ELSE [c3 EXCEPT !.var_type_id = expr_type_id]

visit_unary_op(c, unary_op) ==
  LET c1 == visit_expression(c, unary_op.inner)
      inner_type_id == c1.var_type_id
      c2 == constrain(c1, inner_type_id, Known("Int"), "NumericOperator")
      expr_type_id == fresh_id(c2)
      c3 == constrain([c2 EXCEPT !.fresh = @ + 1], expr_type_id, Known("Int"),
                      "NumericOperator")
  IN IF unary_op.op \in {"Subtraction", "Addition"}
     THEN IF c1.aborted THEN c1
          ELSE [c3 EXCEPT !.var_type_id = expr_type_id]
     ELSE unreachable(c)

EqualityOps == {"Equality", "NonEquality"}
CompareOps == {"LessThan", "GreaterThan", "GreaterThanEquals", "LessThanEquals"}
ArithmeticOps ==
  {"Addition", "Subtraction", "Multiplication", "Division", "Modulus"}

\* visit_binary_op with the numeric constraint of the right operand placed
\* on the left one
visit_binary_op_left_twice(c, bin_op) ==
  LET c1 == visit_expression(c, bin_op.left)
      left_type_id == c1.var_type_id
      c2 == visit_expression(c1, bin_op.right)
      right_type_id == c2.var_type_id
      expr_type_id == fresh_id(c2)
      finish(c3, prim, source) ==
        [constrain([c3 EXCEPT !.fresh = @ + 1], expr_type_id, Known(prim), source)
           EXCEPT !.var_type_id = expr_type_id]
      numeric == constrain(
                   constrain(c2, left_type_id, Known("Int"), "NumericOperator"),
                   left_type_id, Known("Int"), "NumericOperator")
  IN CASE bin_op.op \in EqualityOps ->
            finish(constrain(
                     constrain(c2, left_type_id, Variable(right_type_id),
                               "EqualityOperator"),
                     right_type_id, Variable(left_type_id), "EqualityOperator"),
                   "Int", "EqualityOperator")
       [] bin_op.op \in CompareOps -> finish(numeric, "Bool", "BooleanOperator")
       [] bin_op.op \in ArithmeticOps -> finish(numeric, "Int", "NumericOperator")

\* visit_binary_op with only the first of the two equations between the
\* operands of an equality
visit_binary_op_one_way(c, bin_op) ==
  LET c1 == visit_expression(c, bin_op.left)
      left_type_id == c1.var_type_id
      c2 == visit_expression(c1, bin_op.right)
      right_type_id == c2.var_type_id
      expr_type_id == fresh_id(c2)
      finish(c3, prim, source) ==
        [constrain([c3 EXCEPT !.fresh = @ + 1], expr_type_id, Known(prim), source)
           EXCEPT !.var_type_id = expr_type_id]
      numeric == constrain(
                   constrain(c2, left_type_id, Known("Int"), "NumericOperator"),
                   right_type_id, Known("Int"), "NumericOperator")
  IN CASE bin_op.op \in EqualityOps ->
            finish(constrain(c2, left_type_id, Variable(right_type_id),
                             "EqualityOperator"),
                   "Int", "EqualityOperator")
       [] bin_op.op \in CompareOps -> finish(numeric, "Bool", "BooleanOperator")
       [] bin_op.op \in ArithmeticOps -> finish(numeric, "Int", "NumericOperator")

visit_binary_op(c, bin_op) ==
  LET c1 == visit_expression(c, bin_op.left)
      left_type_id == c1.var_type_id
      c2 == visit_expression(c1, bin_op.right)
      right_type_id == c2.var_type_id
      expr_type_id == fresh_id(c2)
      finish(c3, prim, source) ==
        [constrain([c3 EXCEPT !.fresh = @ + 1], expr_type_id, Known(prim), source)
           EXCEPT !.var_type_id = expr_type_id]
      numeric == constrain(
                   constrain(c2, left_type_id, Known("Int"), "NumericOperator"),
                   right_type_id, Known("Int"), "NumericOperator")
  IN IF c2.aborted THEN c2 ELSE
     CASE bin_op.op \in EqualityOps ->
            finish(constrain(
                     constrain(c2, left_type_id, Variable(right_type_id),
                               "EqualityOperator"),
                     right_type_id, Variable(left_type_id), "EqualityOperator"),
                   "Int", "EqualityOperator")
       [] bin_op.op \in CompareOps -> finish(numeric, "Bool", "BooleanOperator")
       [] bin_op.op \in ArithmeticOps -> finish(numeric, "Int", "NumericOperator")
       [] bin_op.op = "Custom" -> unreachable(c2)

visit_assignment(c, assign) ==
  IF assign.lvalue.id = Default THEN c
  ELSE LET lvalue_type == get_id(assign.lvalue.id)
           c1 == visit_expression([c EXCEPT !.types = @ \cup {assign.lvalue.id}],
                                  assign.rvalue)
           rvalue_type == c1.var_type_id
       IN [constrain(c1, lvalue_type, Variable(rvalue_type), "Assignment")
             EXCEPT !.var_type_id = NoType]

visit_expression(c, e) ==
  IF c.aborted THEN c ELSE
  CASE e.k = "lit" -> visit_literal_expr(c, e)
    [] e.k = "var" -> visit_var_ref(c, e)
    [] e.k = "call" -> visit_fn_call(c, e)
    [] e.k = "if" -> visit_if_expr(c, e)
    [] e.k = "unary" -> visit_unary_op(c, e)
    [] e.k = "binary" -> visit_binary_op(c, e)
    [] e.k = "assign" -> visit_assignment(c, e)

(***************************************************************************)
(* ExprTypeChecker: statements                                             *)
(***************************************************************************)
\* the type a declaration's type expression names (TypeExprIdentifier)
declared_type(type_decl) == Known(type_decl)

visit_declaration(c, decl) ==
  LET var_type_id == get_id(decl.id)
      c0 == [c EXCEPT !.types = @ \cup {decl.id}]
      c1 == IF "type_decl" \in DOMAIN decl
            THEN constrain(c0, var_type_id, declared_type(decl.type_decl),
                           "ExplicitDecl")
            ELSE c0
      c2 == visit_expression(c1, decl.value)
      expr_type_id == c2.var_type_id
  IN [constrain(c2, var_type_id, Variable(expr_type_id), "Declaration")
        EXCEPT !.var_type_id = NoType]

visit_return_stmt(c, return_) ==
  LET c0 == [c EXCEPT !.var_type_id = NoType]
      c1 == visit_expression(c0, return_.value)
      c2 == IF return_.value # NoNode
            THEN IF c1.return_ty_id # NoType
                 THEN add_equation(c1, c1.return_ty_id, Variable(c1.var_type_id))
                 ELSE c1
            ELSE add_equation(c0, c0.return_ty_id, Known("Unary"))
  IN add_source(c2, c2.return_ty_id, "ExplicitReturn")

RECURSIVE visit_statement(_, _)
RECURSIVE walk_block(_, _)

\* visit::walk_block: the block's statements in order
walk_block(c, stmts) ==
  IF stmts = <<>> THEN c
  ELSE walk_block(visit_statement(c, Head(stmts)), Tail(stmts))

visit_block(c, block) ==
  IF block.id = Default THEN c ELSE walk_block(c, block.stmts)

RECURSIVE visit_conditionals(_, _, _, _)
\* the loop over if_block.get_conditionals()
visit_conditionals(c, if_block, conditionals, block_is_typed) ==
  IF conditionals = <<>> THEN c
  ELSE LET conditional == Head(conditionals)
           c1 == visit_expression(c, conditional.cond)
           cond_ty_id == c1.current_type
           c2 == [add_inference(c1, cond_ty_id, BoolType, "IfConditionalBool")
                    EXCEPT !.current_type = NoIndex]
           c3 == IF block_is_typed
                 THEN [c2 EXCEPT !.lvalue_ty_id = Append(@, if_block.type_id),
                                 !.var_type_id = NoType]
                 ELSE c2
       IN visit_conditionals(visit_block(c3, conditional.block), if_block,
                             Tail(conditionals), block_is_typed)

visit_if_block(c, if_block) ==
  IF if_block.id = Default THEN c
  ELSE LET block_is_typed == if_block.else_ # NoNode /\ c.lvalue_ty_id # <<>>
           c1 == visit_conditionals(c, if_block, if_block.conditionals,
                                    block_is_typed)
           c2 == IF if_block.else_ = NoNode THEN c1
                 ELSE visit_block(
                        IF block_is_typed
                        THEN [c1 EXCEPT !.lvalue_ty_id = Append(@, if_block.type_id),
                                        !.var_type_id = NoType]
                        ELSE c1,
                        if_block.else_)
       IN IF block_is_typed THEN [c2 EXCEPT !.var_type_id = if_block.type_id]
          ELSE c2

\* the StatementVisitor dispatch
visit_statement(c, stmt) ==
  IF c.aborted THEN c ELSE
  CASE stmt.k = "expr" -> visit_expression(c, stmt.value)
    [] stmt.k = "decl" -> visit_declaration(c, stmt)
    [] stmt.k = "return" -> visit_return_stmt(c, stmt)
    [] stmt.k = "ifblock" -> visit_if_block(c, stmt)

(***************************************************************************)
(* ExprTypeChecker: items.  The TypeGraph gives a node index to a          *)
(* variable (add_variable) and to a concrete type (add_concrete).          *)
(***************************************************************************)
add_variable(id) == [t |-> "variable", ix |-> id]
add_concrete(id) == [t |-> "concrete", ix |-> id]
UnitType == <<0, 0>>

RECURSIVE visit_params(_, _)
\* the loop over block_fn.get_params()
visit_params(c, params) ==
  IF params = <<>> THEN c
  ELSE LET param == Head(params)
           param_ix == add_variable(param.id)
           param_ty_ix == add_concrete(param.ty_id)
       IN visit_params(add_inference(c, param_ix, param_ty_ix, "FnParameter"),
                       Tail(params))

\* The last statement of the handler names fn_ret_ty and inference, which
\* are bound nowhere; they are read as fn_ret_type of the line before and
\* as the source of an implicit return.
visit_block_fn_decl(c, block_fn) ==
  IF block_fn.id = Default THEN c
  ELSE IF ~block_fn.has_type THEN c
  ELSE LET need_ret_value == block_fn.return_type # UnitType
           fn_ix == add_variable(block_fn.id)
           fn_ty_ix == add_concrete(block_fn.id)
           c1 == add_inference(c, fn_ix, fn_ty_ix, "FunctionSignature")
           c2 == visit_params(c1, block_fn.params)
           c3 == visit_block(c2, block_fn.block)
       IN IF need_ret_value
          THEN LET fn_ret_type == add_concrete(block_fn.return_type)
               IN add_inference(c3, c3.current_type, fn_ret_type, "FnReturnType")
          ELSE c3

(***************************************************************************)
(* ModuleCompiler.  The state is g = [ir_code, blocks, insert, instrs,     *)
(* scope_manager, panic]: the value stack, the basic blocks of the         *)
(* function with their terminators, the block the builder is positioned    *)
(* at, the other instructions built (with their block), the names that     *)
(* have an alloca, and the reason of a panic.  An LLVM value is the term   *)
(* that computes it.  After a panic nothing is built.                      *)
(***************************************************************************)
\* no terminator in a block, no value from a pop
NoTerm == [op |-> "none"]
NewCompiler ==
  [ir_code |-> <<>>, blocks |-> <<[name |-> "entry", term |-> NoTerm]>>,
   insert |-> 1, instrs |-> <<>>, scope_manager |-> {}, panic |-> "none"]

panic(g, why) == IF g.panic # "none" THEN g ELSE [g EXCEPT !.panic = why]
ir_push(g, v) ==
  IF g.panic # "none" THEN g ELSE [g EXCEPT !.ir_code = Append(@, v)]
\* self.ir_code.pop().expect(..): the value, and the compiler after it
ir_top(g) ==
  IF g.ir_code = <<>> THEN NoTerm ELSE g.ir_code[Len(g.ir_code)]
ir_pop(g) ==
  IF g.panic # "none" THEN g
  ELSE IF g.ir_code = <<>> THEN panic(g, "empty stack")
  ELSE [g EXCEPT !.ir_code = SubSeq(@, 1, Len(@) - 1)]
\* an instruction that is no terminator, built at the insert block
build(g, instr) ==
  IF g.panic # "none" THEN g
  ELSE [g EXCEPT !.instrs = Append(@, [block |-> g.insert, instr |-> instr])]
append_basic_block(g, name) ==
  IF g.panic # "none" THEN g
  ELSE [g EXCEPT !.blocks = Append(@, [name |-> name, term |-> NoTerm])]
position_at_end(g, b) ==
  IF g.panic # "none" THEN g ELSE [g EXCEPT !.insert = b]
build_br(g, to) ==
  IF g.panic # "none" THEN g
  ELSE [g EXCEPT !.blocks[g.insert].term = [op |-> "br", to |-> to]]
build_cond_br(g, cond, then, else_) ==
  IF g.panic # "none" THEN g
  ELSE [g EXCEPT !.blocks[g.insert].term =
          [op |-> "cond_br", cond |-> cond, then |-> then, else_ |-> else_]]
scope_insert(g, name) ==
  IF g.panic # "none" THEN g ELSE [g EXCEPT !.scope_manager = @ \cup {name}]

const(value) == [op |-> "const", value |-> value]
build_fcmp(pred, l, r) == [op |-> "fcmp", pred |-> pred, l |-> l, r |-> r]
build_arith(op, l, r) == [op |-> op, l |-> l, r |-> r]
build_phi(at, incoming) == [op |-> "phi", at |-> at, incoming |-> incoming]

mc_check_literal(g, literal) == ir_push(g, const(literal.value))

mc_check_var_ref(g, ident_ref) ==
  IF ident_ref.name \notin g.scope_manager THEN panic(g, "no alloca")
  ELSE ir_push(g, [op |-> "load", name |-> ident_ref.name])

RECURSIVE mc_check_expression(_, _)
RECURSIVE mc_check_statement(_, _)

mc_check_declaration(g, decl) ==
  LET g1 == mc_check_expression(g, decl.value)
      decl_value == ir_top(g1)
      g2 == build(ir_pop(g1), [op |-> "alloca", name |-> decl.name])
      g3 == scope_insert(g2, decl.name)
  IN build(g3, [op |-> "store", value |-> decl_value, name |-> decl.name])

mc_check_assignment(g, assign) ==
  LET g1 == mc_check_expression(g, assign.rvalue)
      rvalue == ir_top(g1)
      g2 == ir_pop(g1)
  IN IF assign.lvalue.name \notin g2.scope_manager THEN panic(g2, "no alloca")
     ELSE build(g2, [op |-> "store", value |-> rvalue, name |-> assign.lvalue.name])

mc_check_unary_op(g, unary_op) ==
  IF unary_op.op # "Subtraction" THEN panic(g, "operator")
  ELSE LET g1 == mc_check_expression(g, unary_op.inner)
           inner_value == ir_top(g1)
       IN ir_push(ir_pop(g1), [op |-> "neg", v |-> inner_value])

Predicate(op) ==
  CASE op = "Equality" -> "OEQ"
    [] op = "NonEquality" -> "ONE"
    [] op = "LessThan" -> "OLT"
    [] op = "LessThanEquals" -> "OLE"
    [] op = "GreaterThan" -> "OGT"
    [] op = "GreaterThanEquals" -> "OGE"
Opcode(op) ==
  CASE op = "Addition" -> "fadd"
    [] op = "Subtraction" -> "fsub"
    [] op = "Multiplication" -> "fmul"
    [] op = "Division" -> "fdiv"
    [] op = "Modulus" -> "frem"

mc_check_binary_op(g, binary_op) ==
  LET g1 == mc_check_expression(g, binary_op.left)
      left_register == ir_top(g1)
      g2 == mc_check_expression(ir_pop(g1), binary_op.right)
      right_register == ir_top(g2)
      g3 == ir_pop(g2)
  IN IF binary_op.op \in {"Addition", "Subtraction", "Multiplication",
                          "Division", "Modulus"}
     THEN ir_push(g3, build_arith(Opcode(binary_op.op), left_register,
                                  right_register))
     ELSE IF binary_op.op = "Custom" THEN panic(g3, "operator")
     ELSE ir_push(g3, [op |-> "uitofp",
                       v |-> build_fcmp(Predicate(binary_op.op),
                                        left_register, right_register)])

mc_check_return(g, return_) ==
  IF return_.value # NoNode
  THEN LET g1 == mc_check_expression(g, return_.value)
           return_val == ir_top(g1)
       IN build(ir_pop(g1), [op |-> "ret", value |-> return_val])
  ELSE build(g, [op |-> "ret void"])

mc_check_if_expr(g, if_expr) ==
  LET g1 == mc_check_expression(g, if_expr.cond)
      condition_expr == ir_top(g1)
      g2 == ir_pop(g1)
      condition == build_fcmp("OEQ", condition_expr, const(0))
      then_block == Len(g2.blocks) + 1
      else_block == Len(g2.blocks) + 2
      end_block == Len(g2.blocks) + 3
      g3 == append_basic_block(append_basic_block(append_basic_block(
              build(g2, condition), "ife_then"), "ife_else"), "ife_end")
      g4 == build_cond_br(g3, condition, then_block, else_block)
      g5 == mc_check_expression(position_at_end(g4, then_block), if_expr.true_expr)
      then_value == ir_top(g5)
      g6 == build_br(ir_pop(g5), end_block)
      then_end_block == g6.insert
      g7 == mc_check_expression(position_at_end(g6, else_block), if_expr.else_)
      else_value == ir_top(g7)
      g8 == build_br(ir_pop(g7), end_block)
      else_end_block == g8.insert
      g9 == position_at_end(g8, end_block)
      phi == build_phi(end_block,
               <<[value |-> then_value, block |-> then_end_block],
                 [value |-> else_value, block |-> else_end_block]>>)
  IN ir_push(build(g9, phi), phi)

RECURSIVE mc_conditionals(_, _, _)
\* the loop of check_if_block_valued over the conditionals; both branches
\* of its closing if are empty
mc_conditionals(g, conditionals, ix) ==
  IF ix > Len(conditionals) THEN g
  ELSE LET g1 == mc_check_expression(g, conditionals[ix].cond)
           g2 == append_basic_block(g1, "iv_then")
           cond_expr == ir_top(g2)
           g3 == ir_pop(g2)
           cond_value == build_fcmp("OEQ", cond_expr, const(0))
       IN mc_conditionals(build(g3, cond_value), conditionals, ix + 1)

mc_check_if_block_valued(g, if_block) ==
  LET g1 == append_basic_block(g, "ifv_end")
      g2 == IF if_block.else_ # NoNode
            THEN append_basic_block(g1, "ifv_else") ELSE g1
  IN mc_conditionals(g2, if_block.conditionals, 1)

mc_check_if_block(g, if_block) ==
  IF if_block.has_value THEN mc_check_if_block_valued(g, if_block)
  ELSE g  \* check_if_block_unvalued has an empty body

\* the ASTVisitor dispatch on the kind of expression and of statement
mc_check_expression(g, e) ==
  IF g.panic # "none" THEN g ELSE
  CASE e.k = "lit" -> mc_check_literal(g, e)
    [] e.k = "var" -> mc_check_var_ref(g, e)
    [] e.k = "unary" -> mc_check_unary_op(g, e)
    [] e.k = "binary" -> mc_check_binary_op(g, e)
    [] e.k = "if" -> mc_check_if_expr(g, e)
    [] e.k = "assign" -> mc_check_assignment(g, e)
    [] e.k = "decl" -> mc_check_declaration(g, e)
    [] e.k = "ifblock" -> mc_check_if_block(g, e)
mc_check_statement(g, stmt) ==
  IF g.panic # "none" THEN g ELSE
  CASE stmt.k = "expr" -> mc_check_expression(g, stmt.value)
    [] stmt.k = "return" -> mc_check_return(g, stmt)
    [] OTHER -> mc_check_expression(g, stmt)

(***************************************************************************)
(* The lexical bindings of the text handled so far: one table per open     *)
(* scope (the function's scope, then one per open block), each name bound  *)
(* by the first parameter or declaration statement of that name in the     *)
(* scope, with the id the resolver snapshotted for it.                     *)
(***************************************************************************)
Unbound == [kind |-> "none", id |-> None]
EmptyEnv == [n \in Names |-> Unbound]
ParamEnv(params) ==
  [n \in Names |->
     IF \E i \in 1..Len(params) : params[i].name = n
     THEN [kind |-> "param",
           id |-> params[CHOOSE i \in 1..Len(params) :
                           /\ params[i].name = n
                           /\ \A j \in 1..(i - 1) : params[j].name # n].id]
     ELSE Unbound]
EnvBound(e, n) == {i \in 1..Len(e) : e[i][n].kind # "none"}
EnvGet(e, n) ==
  IF EnvBound(e, n) = {} THEN Unbound ELSE e[Innermost(EnvBound(e, n))][n]

NewIds(before, after) ==
  LET ix == {i \in 1..Len(after) : after[i].id # before[i].id}
      RECURSIVE from(_)
      from(i) == IF i > Len(after) THEN <<>>
                 ELSE (IF i \in ix THEN <<after[i].id>> ELSE <<>>) \o from(i + 1)
  IN from(1)

(***************************************************************************)
(* Inputs                                                                  *)
(***************************************************************************)
\* the unit's first function is named f
ItemSeqs == {its \in UNION {[1..n -> FnNames] : n \in 1..MaxItems} : its[1] = "f"}
ParamSeqs == {<<>>, <<"x">>, <<"x", "y">>, <<"x", "x">>}
Param(n) == [name |-> n, id |-> Default]
FnDecl(its, i, ps) ==
  [k |-> "fn", name |-> its[i], id |-> ItemId(its, i),
   params |-> [j \in 1..Len(ps) |-> Param(ps[j])]]
Decl(n, e) == [k |-> "decl", name |-> n, id |-> Default, value |-> e]
ExprStmt(e) == [k |-> "expr", value |-> e]
SolverErrors == {<<>>, <<Error("Type mismatch", "")>>}

State == [current_id |-> current_id, scopes |-> scopes, errors |-> errors]
Handled(node, id) == [node |-> node, decl_id |-> id]

(***************************************************************************)
(* Initial state: a driver and the item names of the unit it is given.     *)
(***************************************************************************)
Init ==
  /\ items \in ItemSeqs
  /\ stage = "start"
  /\ result = [kind |-> "none", errors |-> <<>>]
  /\ passes = <<>>
  /\ item_ix = 0
  /\ in_fn = FALSE
  /\ depth = 0
  /\ current_id = Default
  /\ scopes = <<EmptyScope>>
  /\ errors = <<>>
  /\ budget = MaxStmts
  /\ blocks = MaxBlocks
  /\ rechecks = MaxRechecks
  /\ fn_decl = NoNode
  /\ last = Handled(NoNode, None)
  /\ given = <<>>
  /\ env = <<>>
  /\ discarded = {}
  /\ tc = NewChecker
  /\ mc = NewCompiler

(***************************************************************************)
(* NameIdentifier actions                                                  *)
(***************************************************************************)
\* ASTIdentifier::visit_unit: item identification, then check_unit's entry
CheckUnit ==
  /\ stage = "parsed"
  /\ stage' = "unit"
  /\ passes' = Append(passes, "identify")
  /\ scopes' = <<GlobalScope(items)>>
  /\ current_id' = check_unit_enter(current_id)
  /\ UNCHANGED <<mc, result, items, item_ix, in_fn, depth, errors, budget,
                 blocks, rechecks, fn_decl, last, given, env, discarded, tc>>

\* check_unit's loop reaches the next item
VisitFn(fn) ==
  LET r == check_fn_declaration(State, fn) IN
  /\ current_id' = r.st.current_id
  /\ scopes' = r.st.scopes
  /\ errors' = r.st.errors
  /\ in_fn' = r.entered
  /\ fn_decl' = r.node
  /\ last' = Handled(r.node, None)
  /\ given' = given \o NewIds(fn.params, r.node.params)
  /\ env' = IF r.entered THEN <<ParamEnv(r.node.params)>> ELSE <<>>

CheckFnDeclaration ==
  /\ stage = "unit"
  /\ depth = 0
  /\ item_ix < Len(items)
  /\ \E ps \in ParamSeqs : VisitFn(FnDecl(items, item_ix + 1, ps))
  /\ item_ix' = item_ix + 1
  /\ UNCHANGED <<mc, stage, result, passes, items, depth, budget, blocks, rechecks, discarded, tc>>

\* check_fn_declaration is called once more with the declaration it was
\* last called with
RecheckFnDeclaration ==
  /\ stage = "unit"
  /\ depth = 0
  /\ item_ix > 0
  /\ rechecks > 0
  /\ rechecks' = rechecks - 1
  /\ VisitFn(fn_decl)
  /\ UNCHANGED <<mc, stage, result, passes, items, item_ix, depth, budget, blocks,
                 discarded, tc>>

CheckDeclaration ==
  /\ stage = "unit"
  /\ in_fn
  /\ budget > 0
  /\ \E n \in VarNames, e \in Initializers :
       LET r == check_declaration(State, Decl(n, e)) IN
       /\ current_id' = r.st.current_id
       /\ scopes' = r.st.scopes
       /\ errors' = r.st.errors
       /\ last' = Handled(r.node, r.decl_id)
            /\ given' = IF r.decl_id # None THEN Append(given, r.decl_id) ELSE given
       /\ env' = IF env[Len(env)][n].kind = "none"
                 THEN [env EXCEPT ![Len(env)][n] =
                         [kind |-> "decl", id |-> r.decl_id]]
                 ELSE env
  /\ budget' = budget - 1
  /\ UNCHANGED <<mc, stage, result, passes, items, item_ix, in_fn, depth,
                 blocks, rechecks, fn_decl, discarded, tc>>

\* an expression used as a statement
CheckExpression ==
  /\ stage = "unit"
  /\ in_fn
  /\ budget > 0
  /\ \E e \in Exprs :
       LET r == check_expression(e, scopes, errors) IN
       /\ errors' = r.errors
       /\ last' = Handled(ExprStmt(r.e), None)
       /\ budget' = budget - 1
  /\ UNCHANGED <<mc, stage, result, passes, items, item_ix, in_fn, depth,
                 current_id, scopes, blocks, rechecks, fn_decl, given, env, discarded, tc>>

\* check_block up to its statement loop
CheckBlock ==
  /\ stage = "unit"
  /\ in_fn
  /\ blocks > 0
  /\ LET st == check_block_enter(State) IN
       /\ current_id' = st.current_id
       /\ scopes' = st.scopes
  /\ depth' = depth + 1
  /\ blocks' = blocks - 1
  /\ last' = Handled([k |-> "block"], None)
  /\ env' = Append(env, EmptyEnv)
  /\ UNCHANGED <<mc, stage, result, passes, items, item_ix, in_fn, errors,
                 budget, rechecks, fn_decl, given, discarded, tc>>

\* check_block after its statement loop
CheckBlockReturn ==
  /\ stage = "unit"
  /\ depth > 0
  /\ LET st == check_block_exit(State) IN
       /\ current_id' = st.current_id
       /\ scopes' = st.scopes
  /\ depth' = depth - 1
  /\ last' = Handled([k |-> "end"], None)
  /\ env' = SubSeq(env, 1, Len(env) - 1)
  /\ discarded' = discarded \cup
       {[name |-> n, id |-> env[Len(env)][n].id] :
          n \in {m \in Names : env[Len(env)][m].kind # "none"}}
  /\ UNCHANGED <<mc, stage, result, passes, items, item_ix, in_fn, errors,
                 budget, blocks, rechecks, fn_decl, given, tc>>

\* check_unit after its item loop
CheckUnitReturn ==
  /\ stage = "unit"
  /\ depth = 0
  /\ item_ix = Len(items)
  /\ stage' = "identified"
  /\ current_id' = check_unit_exit(current_id)
  /\ in_fn' = FALSE
  /\ UNCHANGED <<mc, result, passes, items, item_ix, depth, scopes, errors,
                 budget, blocks, rechecks, fn_decl, last, given, env, discarded, tc>>

(***************************************************************************)
(* The pipeline: Runner, IdentifyRunner, CheckRunner, CompileRunner        *)
(***************************************************************************)
CheckerError(errs) == [kind |-> "CheckerError", errors |-> errs]
\* the error test of identify and check, always taking the Ok branch
Gate_ignores_errors(errs, next) ==
  /\ stage' = next
  /\ UNCHANGED result

\* lines 79-85 and 119-125: Err(CheckerError(errors)) or the next runner
Gate(errs, next) ==
  IF errs # <<>>
  THEN /\ stage' = "err"
       /\ result' = CheckerError(errs)
  ELSE /\ stage' = next
       /\ UNCHANGED result

Parse ==
  /\ stage = "start"
  /\ passes' = Append(passes, "parse")
  /\ \E ok \in BOOLEAN :
       IF ok THEN /\ stage' = "parsed"
                  /\ UNCHANGED result
       ELSE /\ stage' = "err"
            /\ result' = [kind |-> "ParseError", errors |-> <<>>]
  /\ UNCHANGED <<mc, items, item_ix, in_fn, depth, current_id, scopes,
                 errors, budget, blocks, rechecks, fn_decl, last, given, env, discarded, tc>>

\* IdentifyRunner::identify after visit_unit
Identify ==
  /\ stage = "identified"
  /\ Gate(errors, "CheckRunner")
  /\ UNCHANGED <<mc, passes, items, item_ix, in_fn, depth, current_id,
                 scopes, errors, budget, blocks, rechecks, fn_decl, last, given, env, discarded, tc>>

\* CheckRunner::check: TypeConcretifier::visit_unit, then the error test
Check ==
  /\ stage = "CheckRunner"
  /\ passes' = Append(passes, "solve")
  /\ \E errs \in SolverErrors :
       /\ errors' = errors \o errs
       /\ Gate(errors \o errs, "CheckedUnit")
  /\ UNCHANGED <<mc, items, item_ix, in_fn, depth, current_id, scopes,
                 budget, blocks, rechecks, fn_decl, last, given, env, discarded, tc>>

Compile ==
  /\ stage = "CheckedUnit"
  /\ passes' = Append(passes, "compile")
  /\ stage' = "compiled"
  /\ UNCHANGED <<mc, result, items, item_ix, in_fn, depth, current_id,
                 scopes, errors, budget, blocks, rechecks, fn_decl, last, given, env, discarded, tc>>

Next ==
  \/ CheckUnit
  \/ CheckFnDeclaration
  \/ CheckDeclaration
  \/ CheckExpression
  \/ CheckBlock
  \/ CheckBlockReturn
  \/ CheckUnitReturn
  \/ Parse
  \/ Identify
  \/ Check
  \/ Compile

Spec == Init /\ [][Next]_vars

\* the same unit, with check_fn_declaration also called again on a
\* declaration it has handled
\* the resolver alone, over units of functions and declaration statements,
\* with the latest function declaration handed to it again
NextRerun ==
  \/ Parse
  \/ CheckUnit
  \/ CheckFnDeclaration
  \/ RecheckFnDeclaration
  \/ CheckDeclaration
  \/ CheckUnitReturn

SpecRerun == Init /\ [][NextRerun]_vars

(***************************************************************************)
(* One function's body where a block statement is handled from entry to    *)
(* return in one step, between declaration statements of the body.         *)
(***************************************************************************)
BlockContents ==
  LET SimpleStmts ==
        {Decl("x", Lit), Decl("y", Var("x")), ExprStmt(Var("y"))}
      InnerBlocks ==
        {[k |-> "block", stmts |-> ss] :
           ss \in {<<>>} \cup {<<st>> : st \in SimpleStmts}}
  IN {<<>>} \cup {<<st>> : st \in SimpleStmts \cup InnerBlocks}
            \cup {<<st, t>> : st \in SimpleStmts,
                              t \in SimpleStmts \cup InnerBlocks}

InitBlock ==
  /\ items \in ItemSeqs
  /\ \E ps \in ParamSeqs :
       LET r == check_fn_declaration(
                  [current_id |-> check_unit_enter(Default),
                   scopes |-> <<GlobalScope(items)>>, errors |-> <<>>],
                  FnDecl(items, 1, ps))
       IN /\ current_id = r.st.current_id
          /\ scopes = r.st.scopes
          /\ errors = r.st.errors
          /\ fn_decl = r.node
          /\ given = NewIds(FnDecl(items, 1, ps).params, r.node.params)
          /\ env = <<ParamEnv(r.node.params)>>
  /\ stage = "unit"
  /\ result = [kind |-> "none", errors |-> <<>>]
  /\ passes = <<"parse", "identify">>
  /\ item_ix = 1
  /\ in_fn = TRUE
  /\ depth = 0
  /\ budget = MaxStmts
  /\ blocks = MaxBlocks
  /\ rechecks = MaxRechecks
  /\ last = Handled(NoNode, None)
  /\ discarded = {}
  /\ tc = NewChecker
  /\ mc = NewCompiler

\* check_block from its first line to its last
CheckWholeBlock ==
  /\ stage = "unit"
  /\ in_fn
  /\ blocks > 0
  /\ \E ss \in BlockContents :
     \E block \in {[k |-> "block", stmts |-> ss]} :
     \E r \in {check_block(State, block)} :
       /\ current_id' = r.st.current_id
       /\ scopes' = r.st.scopes
       /\ errors' = r.st.errors
       /\ given' = given \o r.given
       /\ last' = Handled(block, None)
  /\ blocks' = blocks - 1
  /\ UNCHANGED <<mc, stage, result, passes, items, item_ix, in_fn, depth,
                 budget, rechecks, fn_decl, env, discarded, tc>>

NextBlock == CheckWholeBlock \/ CheckDeclaration

SpecBlock == InitBlock /\ [][NextBlock]_vars

(***************************************************************************)
(* One function's statements, resolved and then type-checked one by one:   *)
(* the resolver starts where check_fn_declaration's parameter loop left    *)
(* it for the unit's first function.                                       *)
(***************************************************************************)
Nested ==
  {Call("g", "single", <<Arg("", FALSE, Call("f", "args", <<Arg("x", TRUE, Var("x"))>>))>>),
   Call("f", "single", <<Arg("", FALSE, Call("g", "single", <<Arg("", FALSE, Var("x"))>>))>>)}
ExprInputs == Exprs \cup Nested

InitExpr ==
  /\ items \in ItemSeqs
  /\ \E ps \in ParamSeqs :
       LET r == check_fn_declaration(
                  [current_id |-> check_unit_enter(Default),
                   scopes |-> <<GlobalScope(items)>>, errors |-> <<>>],
                  FnDecl(items, 1, ps))
       IN /\ current_id = r.st.current_id
          /\ scopes = r.st.scopes
          /\ errors = r.st.errors
          /\ fn_decl = r.node
          /\ given = NewIds(FnDecl(items, 1, ps).params, r.node.params)
          /\ env = <<ParamEnv(r.node.params)>>
  /\ stage = "expr"
  /\ result = [kind |-> "none", errors |-> <<>>]
  /\ passes = <<"parse", "identify">>
  /\ item_ix = 1
  /\ in_fn = TRUE
  /\ depth = 0
  /\ budget = MaxStmts
  /\ blocks = MaxBlocks
  /\ rechecks = MaxRechecks
  /\ last = Handled(NoNode, None)
  /\ discarded = {}
  /\ tc = NewChecker
  /\ mc = NewCompiler

\* NameIdentifier reaches an expression statement
ResolveExpression ==
  /\ stage = "expr"
  /\ budget > 0
  /\ \E e \in ExprInputs :
       LET r == check_expression(e, scopes, errors) IN
       /\ errors' = r.errors
       /\ last' = Handled(ExprStmt(r.e), None)
  /\ budget' = budget - 1
  /\ stage' = "resolved"
  /\ UNCHANGED <<mc, result, passes, items, item_ix, in_fn, depth, current_id,
                 scopes, blocks, rechecks, fn_decl, given, env, discarded, tc>>

\* ExprTypeChecker reaches the same statement
VisitExpression ==
  /\ stage = "resolved"
  /\ tc' = visit_expression(tc, last.node.value)
  /\ stage' = "expr"
  /\ UNCHANGED <<mc, result, passes, items, item_ix, in_fn, depth, current_id,
                 scopes, errors, budget, blocks, rechecks, fn_decl, last,
                 given, env, discarded>>

NextExpr == ResolveExpression \/ VisitExpression

SpecExpr == InitExpr /\ [][NextExpr]_vars

(***************************************************************************)
(* ExprTypeChecker over the statements of one function body, as the name   *)
(* resolver leaves them: x is a resolved parameter, y an unresolved name,  *)
(* f a resolved callee and g an unknown one.                               *)
(***************************************************************************)
LitBool == [k |-> "lit", v |-> "bool"]
LitUnit == [k |-> "lit", v |-> "unit"]
RefX == [Var("x") EXCEPT !.id = <<1, 0, 0>>]
RefY == Var("y")
Ident(n, id) == [name |-> n, id |-> id]
UnOp(op, e) == [k |-> "unary", op |-> op, inner |-> e]
BinOp(op, l, r) == [k |-> "binary", op |-> op, left |-> l, right |-> r]
IfExpr(c, t, e) == [k |-> "if", cond |-> c, true_expr |-> t, else_ |-> e]
Assign(lv, rv) == [k |-> "assign", lvalue |-> lv, rvalue |-> rv]
CallF(form, args) == [Call("f", form, args) EXCEPT !.id = <<1, 0>>]
CallG == Call("g", "single", <<Arg("", FALSE, Lit)>>)
Return(e) == [k |-> "return", value |-> e]
Block(id, stmts) == [k |-> "block", id |-> id, stmts |-> stmts]
Conditional(c, b) == [cond |-> c, block |-> b]
IfBlock(id, cs, e) ==
  [k |-> "ifblock", id |-> id, conditionals |-> cs, else_ |-> e,
   type_id |-> get_id(id)]

BinaryOps == EqualityOps \cup CompareOps \cup ArithmeticOps
Operands == {<<Lit, RefX>>, <<LitBool, Lit>>}
MoreOperands ==
  {<<Lit, RefY>>, <<RefY, Lit>>, <<LitBool, LitBool>>, <<Lit, CallG>>,
   <<Lit, Assign(Ident("x", <<1, 0, 0>>), Lit)>>,
   <<UnOp("Subtraction", Lit), CallF("args", <<>>)>>}
TypeExprs ==
  {Lit, LitBool, LitUnit, RefX, RefY, CallG}
    \cup {BinOp(op, p[1], p[2]) : op \in BinaryOps, p \in Operands}
    \cup {BinOp(op, p[1], p[2]) : op \in {"Addition", "Equality"},
                                  p \in MoreOperands}
    \cup {UnOp("Subtraction", Lit), UnOp("Addition", RefY)}
    \cup {IfExpr(LitBool, Lit, Lit), IfExpr(RefX, Lit, LitBool),
          IfExpr(RefY, Lit, RefX), IfExpr(LitBool, Lit, RefY),
          IfExpr(BinOp("LessThan", Lit, RefX), RefX, Lit)}
    \cup {Assign(Ident("x", <<1, 0, 0>>), Lit),
          Assign(Ident("x", <<1, 0, 0>>), RefY),
          Assign(Ident("y", Default), Lit)}
    \cup {CallF("single", <<Arg("", FALSE, Lit)>>),
          CallF("args", <<Arg("x", FALSE, LitBool), Arg("y", TRUE, RefX)>>),
          CallF("args", <<Arg("y", TRUE, RefY)>>)}
TypeStmts ==
  {ExprStmt(e) : e \in TypeExprs}
    \cup {[Decl("y", Lit) EXCEPT !.id = <<1, 0, 1>>],
          [Decl("y", RefY) EXCEPT !.id = <<1, 0, 1>>],
          [k |-> "decl", name |-> "y", id |-> <<1, 0, 1>>, value |-> LitBool,
           type_decl |-> "Bool"]}
    \cup {Return(NoNode), Return(Lit), Return(RefY)}
    \cup {IfBlock(<<1, 0, 1>>, <<Conditional(LitBool, Block(<<1, 0, 2>>,
                                                          <<ExprStmt(Lit)>>))>>,
                  NoNode),
          IfBlock(<<1, 0, 1>>,
                  <<Conditional(RefX, Block(<<1, 0, 2>>, <<>>)),
                    Conditional(BinOp("LessThan", Lit, Lit),
                                Block(Default, <<ExprStmt(Lit)>>))>>,
                  Block(<<1, 0, 3>>, <<ExprStmt(LitBool)>>)),
          IfBlock(Default, <<Conditional(LitBool, Block(<<1, 0, 2>>, <<>>))>>,
                  NoNode)}

\* return_ty_id is assigned nowhere in expr_checker.rs: the function either
\* declares no return type or its return type's id was stored in it
ReturnTypes == {NoType, [t |-> "ret", ix |-> <<1, 0>>]}

InitTypes ==
  /\ items = <<"f">>
  /\ stage = "types"
  /\ result = [kind |-> "none", errors |-> <<>>]
  /\ passes = <<"parse", "identify">>
  /\ item_ix = 1
  /\ in_fn = TRUE
  /\ depth = 0
  /\ current_id = <<1, 0, 1>>
  /\ scopes = <<GlobalScope(items), define_local(<<EmptyScope>>, "x", <<1, 0, 0>>)[1]>>
  /\ errors = <<>>
  /\ budget = MaxStmts
  /\ blocks = MaxBlocks
  /\ rechecks = MaxRechecks
  /\ fn_decl = NoNode
  /\ last = Handled(NoNode, None)
  /\ given = <<>>
  /\ env = <<>>
  /\ discarded = {}
  /\ \E ty \in ReturnTypes : tc = [NewChecker EXCEPT !.return_ty_id = ty]
  /\ mc = NewCompiler

\* ExprTypeChecker reaches the next statement of the body
VisitStatement ==
  /\ stage = "types"
  /\ ~tc.aborted
  /\ budget > 0
  /\ \E stmt \in TypeStmts :
       /\ tc' = visit_statement(tc, stmt)
       /\ last' = Handled(stmt, None)
  /\ budget' = budget - 1
  /\ UNCHANGED <<mc, stage, result, passes, items, item_ix, in_fn, depth,
                 current_id, scopes, errors, blocks, rechecks, fn_decl,
                 given, env, discarded>>

NextTypes == VisitStatement

SpecTypes == InitTypes /\ [][NextTypes]_vars

(***************************************************************************)
(* The ItemVisitor of ExprTypeChecker over the function declarations of a  *)
(* unit, one checker for all of them.                                      *)
(***************************************************************************)
BlockFns ==
  LET FloatType == <<0, 1>>
      FnParams ==
        {<<>>, <<[name |-> "x", id |-> <<1, 0, 0>>, ty_id |-> FloatType],
                 [name |-> "y", id |-> <<1, 0, 1>>, ty_id |-> UnitType]>>}
      FnBodies ==
        {Block(<<1, 1>>, <<>>),
         Block(<<1, 1>>, <<ExprStmt(Lit)>>),
         Block(<<1, 1>>, <<ExprStmt(RefY)>>),
         Block(<<1, 1>>, <<ExprStmt(LitBool),
                           ExprStmt(BinOp("Addition", Lit, RefX))>>),
         Block(<<1, 1>>, <<Return(Lit)>>),
         Block(Default, <<ExprStmt(Lit)>>)}
  IN {[k |-> "fn", id |-> h[1], has_type |-> h[2], params |-> ps,
       return_type |-> ret, block |-> b] :
        h \in {<<Default, FALSE>>, <<<<1>>, FALSE>>, <<<<1>>, TRUE>>},
        ps \in FnParams, ret \in {UnitType, FloatType}, b \in FnBodies}

\* ExprTypeChecker reaches the next function declaration of the unit
VisitBlockFnDecl ==
  /\ stage = "types"
  /\ ~tc.aborted
  /\ item_ix <= MaxItems
  /\ \E block_fn \in BlockFns :
       /\ tc' = visit_block_fn_decl(tc, block_fn)
       /\ last' = Handled(block_fn, None)
  /\ item_ix' = item_ix + 1
  /\ UNCHANGED <<mc, stage, result, passes, items, in_fn, depth, current_id,
                 scopes, errors, budget, blocks, rechecks, fn_decl, given,
                 env, discarded>>

SpecFn == InitTypes /\ [][VisitBlockFnDecl]_vars

(***************************************************************************)
(* ExprTypeChecker over expression statements that are operations, with    *)
(* every variant of the Operator enumeration in both positions.            *)
(***************************************************************************)
\* ExprTypeChecker reaches an operation of the body
VisitOperation ==
  /\ stage = "types"
  /\ ~tc.aborted
  /\ budget > 0
  /\ LET Operators == BinaryOps \cup {"Custom"}
         Operations ==
           {UnOp(op, e) : op \in Operators, e \in {Lit, RefX}}
             \cup {BinOp(op, Lit, e) : op \in Operators, e \in {Lit, RefY}}
             \cup {UnOp("Subtraction", UnOp(op, Lit)) :
                      op \in {"Addition", "Division"}}
             \cup {BinOp("Addition", UnOp(op, Lit), Lit) :
                      op \in {"Subtraction", "Custom"}}
             \cup {BinOp("Equality", Lit, BinOp(op, Lit, Lit)) :
                      op \in {"Modulus", "Custom"}}
     IN \E e \in Operations :
       /\ tc' = visit_statement(tc, ExprStmt(e))
       /\ last' = Handled(ExprStmt(e), None)
  /\ budget' = budget - 1
  /\ UNCHANGED <<mc, stage, result, passes, items, item_ix, in_fn, depth,
                 current_id, scopes, errors, blocks, rechecks, fn_decl,
                 given, env, discarded>>

SpecOps == InitTypes /\ [][VisitOperation]_vars

(***************************************************************************)
(* ModuleCompiler over the statements of the unit's block, after           *)
(* check_unit positioned the builder at the end of the entry block.        *)
(***************************************************************************)
CompileStmts ==
  LET Num(value) == [k |-> "lit", v |-> "float", value |-> value]
      Conditions ==
        {Num(0), Num(1), BinOp("LessThan", Num(1), Num(2)),
         BinOp("Equality", Num(1), Num(2))}
      IfExprs ==
        {IfExpr(c, Num(1), Num(2)) : c \in Conditions}
          \cup {IfExpr(Num(1), IfExpr(Num(0), Num(1), Num(2)), Num(0)),
                IfExpr(BinOp("GreaterThan", Num(1), Num(2)), Num(2),
                       IfExpr(Num(1), Num(1), Num(0)))}
      CompileIfBlock(has_value, cs, e) ==
        [k |-> "ifblock", has_value |-> has_value, conditionals |-> cs,
         else_ |-> e]
      Arm(c, stmts) ==
        [cond |-> c, block |-> Block(Default, stmts), has_value |-> TRUE]
      IfBlocks ==
        {CompileIfBlock(TRUE, <<Arm(Num(1), <<ExprStmt(Num(2))>>)>>,
                        Block(Default, <<ExprStmt(Num(0))>>)),
         CompileIfBlock(TRUE, <<Arm(Num(0), <<ExprStmt(Num(1))>>),
                                Arm(Num(1), <<ExprStmt(Num(2))>>)>>,
                        Block(Default, <<ExprStmt(Num(0))>>)),
         CompileIfBlock(TRUE, <<Arm(Num(1), <<ExprStmt(Num(2))>>)>>, NoNode),
         CompileIfBlock(FALSE, <<Arm(Num(1), <<ExprStmt(Num(2))>>)>>, NoNode)}
      CompileExprs ==
        {Num(0), Num(2), Var("x"), UnOp("Subtraction", Num(1)),
         UnOp("Subtraction", Var("x")), UnOp("Addition", Num(1))}
          \cup {BinOp(op, Num(1), Num(2)) : op \in BinaryOps \cup {"Custom"}}
          \cup {BinOp("Addition", Var("x"), UnOp("Subtraction", Num(2)))}
          \cup IfExprs
  IN {ExprStmt(e) : e \in CompileExprs}
       \cup {Decl("x", Num(1)), Decl("x", BinOp("Addition", Num(1), Num(2))),
             Decl("y", IfExpr(Num(1), Num(1), Num(2))),
             ExprStmt(Assign(Ident("x", Default), Num(2))),
             ExprStmt(Assign(Ident("x", Default), Var("x"))),
             Return(NoNode), Return(Num(0)), Return(Var("x"))}
       \cup IfBlocks
       \cup {Decl("y", b) : b \in {c \in IfBlocks : c.has_value /\ c.else_ # NoNode}}

\* check_block reaches the next statement of the unit's block
CompileStatement ==
  /\ stage = "types"
  /\ mc.panic = "none"
  /\ budget > 0
  /\ \E stmt \in CompileStmts :
       /\ mc' = mc_check_statement(mc, stmt)
       /\ last' = Handled(stmt, None)
  /\ budget' = budget - 1
  /\ UNCHANGED <<stage, result, passes, items, item_ix, in_fn, depth,
                 current_id, scopes, errors, blocks, rechecks, fn_decl,
                 given, env, discarded, tc>>

SpecCompile == InitTypes /\ [][CompileStatement]_vars

(***************************************************************************)
(* Properties                                                              *)
(***************************************************************************)
Count(errs, msg) == Cardinality({i \in 1..Len(errs) : errs[i].msg = msg})
Top(seq) == seq[Len(seq)]

\* the step just taken is a first visit of a function declaration, a
\* repeated one, a declaration statement, a variable reference statement
FnStep == last'.node.k = "fn" /\ item_ix' = item_ix + 1
RerunStep == last'.node.k = "fn" /\ rechecks' = rechecks - 1
DeclStep == last'.node.k = "decl" /\ budget' = budget - 1
RefStep ==
  /\ last'.node.k = "expr"
  /\ budget' = budget - 1
  /\ last'.node.value.k = "var"

\* C1: the ids snapshotted for parameters and declarations while check_unit
\* handles a unit are pairwise distinct, and none is the id of a function.
C1_Uniqueness ==
  /\ \A i, j \in 1..Len(given) : i # j => given[i] # given[j]
  /\ \A i \in 1..Len(given), k \in 1..Len(items) : given[i] # ItemId(items, k)

\* a second function with a parameter or declaration behind it, and a
\* declaration inside a block that has just been given an id
C1_Witness ==
  /\ item_ix = 2
  /\ depth = 1
  /\ Len(given) >= 3
  /\ last.node.k = "decl"
  /\ last.decl_id # None

\* C2: if x is bound in an enclosing scope and declared again in the open
\* block, a reference to x in the block resolves to the id of the block's
\* declaration; if x was declared in a block that has been left and is bound
\* outside it, a reference to x resolves to that outer id and to no id of a
\* block that has been left.
C2_Shadowing ==
  [][RefStep =>
       LET n == last'.node.value.name
           id == last'.node.value.id
       IN /\ ( /\ depth >= 1
               /\ Top(env)[n].kind = "decl"
               /\ \E i \in 1..(Len(env) - 1) : env[i][n].kind # "none" )
             => (id = Top(env)[n].id /\ id # None)
          /\ ( /\ \E d \in discarded : d.name = n
               /\ Top(env)[n].kind = "none"
               /\ EnvGet(env, n).kind # "none" )
             => ( /\ id = EnvGet(env, n).id
                  /\ \A d \in discarded : d.name = n => id # d.id )]_vars

\* C3: the first declaration statement of a name that no open scope binds
\* gets an id and no error; every later declaration statement of that name
\* in the same scope adds exactly one "already declared" error and gets no id.
C3_DuplicateRejection ==
  [][DeclStep =>
       LET n == last'.node.name
           added == Count(errors', "Variable already declared")
                      - Count(errors, "Variable already declared")
       IN /\ EnvGet(env, n).kind = "none"
               => (last'.decl_id # None /\ added = 0)
          /\ Top(env)[n].kind = "decl"
               => (last'.decl_id = None /\ added = 1)]_vars

\* C4: a declaration statement that adds no duplicate error leaves its name
\* bound, in the innermost table, to the id snapshotted for it; a reference
\* to a name declared in the current scope resolves to that declaration's id.
C4_DeclarationBinds ==
  [][ /\ ( /\ DeclStep
           /\ Count(errors', "Variable already declared")
                = Count(errors, "Variable already declared") )
         => Top(scopes')[last'.node.name] = last'.decl_id
      /\ (RefStep /\ Top(env)[last'.node.value.name].kind = "decl")
         => last'.node.value.id = Top(env)[last'.node.value.name].id ]_vars

\* C5: a declaration statement in a block, of a name that is bound in an
\* enclosing scope and not in the block's own scope, adds no duplicate error
\* and gets an id.
C5_ShadowingLegal ==
  [][( /\ DeclStep
       /\ depth >= 1
       /\ Top(env)[last'.node.name].kind = "none"
       /\ EnvGet(env, last'.node.name).kind # "none" )
     => ( /\ Count(errors', "Variable already declared")
               = Count(errors, "Variable already declared")
          /\ last'.decl_id # None )]_vars

\* C6: of a visited function's parameters, exactly those with an earlier
\* parameter of the same name in the same function add a "duplicate
\* argument" error and get no id; every other parameter gets an id and is
\* defined in the innermost table.
C6_DuplicateArgument ==
  [][(FnStep /\ last'.node.id # Default) =>
       LET ps == last'.node.params
           dup == {i \in 1..Len(ps) :
                     \E j \in 1..(i - 1) : ps[j].name = ps[i].name}
       IN /\ \A i \in dup : ps[i].id = Default
          /\ \A i \in (1..Len(ps)) \ dup :
               /\ ps[i].id # Default
               /\ Top(scopes')[ps[i].name] = ps[i].id
          /\ Count(errors', "Argument already declared")
               = Count(errors, "Argument already declared") + Cardinality(dup)
     ]_vars

RECURSIVE Untouched(_)
Untouched(e) ==
  CASE e.k = "var" -> e.id = Default
    [] e.k = "call" ->
         /\ e.id = Default
         /\ \A i \in 1..Len(e.args) : Untouched(e.args[i].e)
    [] OTHER -> TRUE

RECURSIVE Resolved(_, _)
Resolved(e, s) ==
  CASE e.k = "var" ->
         e.id = (IF get(s, e.name) # None THEN get(s, e.name) ELSE Default)
    [] e.k = "call" ->
         IF get(s, e.name) = None THEN Untouched(e)
         ELSE /\ e.id = get(s, e.name)
              /\ \A i \in 1..Len(e.args) : Resolved(e.args[i].e, s)
    [] OTHER -> TRUE

\* the calls of unknown functions the resolver reaches in e
RECURSIVE UnknownCalls(_, _)
RECURSIVE UnknownCallsOf(_, _)
UnknownCallsOf(args, s) ==
  IF args = <<>> THEN 0
  ELSE UnknownCalls(Head(args).e, s) + UnknownCallsOf(Tail(args), s)
UnknownCalls(e, s) ==
  IF e.k # "call" THEN 0
  ELSE IF get(s, e.name) = None THEN 1 ELSE UnknownCallsOf(e.args, s)

\* the literals and the resolved calls of e outside every unresolved call:
\* each has one fresh type id and one equation
RECURSIVE Typed(_)
RECURSIVE TypedOf(_)
TypedOf(args) ==
  IF args = <<>> THEN 0 ELSE Typed(Head(args).e) + TypedOf(Tail(args))
Typed(e) ==
  CASE e.k = "lit" -> 1
    [] e.k = "call" -> IF e.id = Default THEN 0 ELSE 1 + TypedOf(e.args)
    [] OTHER -> 0

\* C8: resolving a call of an unknown function adds one "Unknown function"
\* error and no other, and leaves the call and everything below it without
\* an id; resolving a call of a known name gives it that name's id and
\* resolves every argument; the type checker adds a fresh id and an equation
\* for the literals and resolved calls only, and nothing for an unresolved
\* call or below it.
C8_UnknownCall ==
  [][ /\ (stage = "expr" /\ stage' = "resolved") =>
           LET e == last'.node.value IN
           /\ Resolved(e, scopes)
           /\ Len(errors') = Len(errors) + UnknownCalls(e, scopes)
           /\ Count(errors', "Unknown function")
                = Count(errors, "Unknown function") + UnknownCalls(e, scopes)
      /\ (stage = "resolved" /\ stage' = "expr") =>
           LET e == last.node.value IN
           /\ tc'.fresh = tc.fresh + Typed(e)
           /\ Len(tc'.equations) = Len(tc.equations) + Typed(e)
           /\ (e.k = "call" /\ e.id = Default) => tc' = tc ]_vars

\* a call of an unknown function, with an argument naming a bound variable,
\* has been resolved and type-checked
C8_Witness ==
  /\ stage = "expr"
  /\ last.node.k = "expr"
  /\ last.node.value.k = "call"
  /\ last.node.value.id = Default
  /\ Len(last.node.value.args) > 0
  /\ last.node.value.args[1].e.k = "var"
  /\ get(scopes, last.node.value.args[1].e.name) # None
  /\ Count(errors, "Unknown function") > 0

\* C9: a CheckerError result carries the non-empty error list of the stage
\* that ended, and a failed stage is the last one; a ParseError result has no
\* stage after parse; CheckRunner, CheckedUnit and code generation are
\* reached only with an empty error list and every earlier stage run.
C9_Gating ==
  /\ result.kind = "CheckerError" =>
       /\ stage = "err"
       /\ result.errors = errors
       /\ errors # <<>>
       /\ passes \in {<<"parse", "identify">>, <<"parse", "identify", "solve">>}
  /\ result.kind = "ParseError" => (stage = "err" /\ passes = <<"parse">>)
  /\ stage = "CheckRunner" => (errors = <<>> /\ passes = <<"parse", "identify">>)
  /\ stage = "CheckedUnit" =>
       (errors = <<>> /\ passes = <<"parse", "identify", "solve">>)
  /\ (\E i \in 1..Len(passes) : passes[i] = "compile") =>
       /\ errors = <<>>
       /\ result.kind = "none"
       /\ passes = <<"parse", "identify", "solve", "compile">>

\* identify ended with errors and the pipeline returned them
C9_Witness ==
  /\ result.kind = "CheckerError"
  /\ passes = <<"parse", "identify">>
  /\ Len(result.errors) >= 1

\* C10: a run that reaches a CheckedUnit has run name resolution, equation
\* emission and solving, once each and in that order.
C10_PassOrder ==
  stage = "CheckedUnit" =>
    SelectSeq(passes, LAMBDA p : p # "parse") = <<"identify", "emit", "solve">>

\* id lies below the function id f in the tree of scopes
Under(id, f) ==
  /\ f # Default
  /\ Len(id) > Len(f)
  /\ SubSeq(id, 1, Len(f)) = f

\* C19: when check_unit's loop hands over the next function, the earlier
\* function's call has returned and the scope stack is back to the global
\* table alone; a variable reference in a later function never resolves to
\* an id given to a parameter or local of an earlier function.
C19_NoLeak ==
  [][ /\ (FnStep /\ item_ix >= 1) => Len(scopes) = 1
      /\ (RefStep /\ item_ix >= 2) =>
           \A k \in 1..(item_ix - 1) :
             ~Under(last'.node.value.id, ItemId(items, k)) ]_vars

(***************************************************************************)
(* Properties of ExprTypeChecker.  A step of VisitStatement visits the     *)
(* statement last'.node from the checker state tc and leaves tc'.          *)
(***************************************************************************)
TypeStep == stage = "types" /\ budget' = budget - 1
ExprStep(kind) ==
  /\ TypeStep
  /\ last'.node.k = "expr"
  /\ last'.node.value.k = kind

\* the fresh ids and the equations a visit of e takes and adds
RECURSIVE FreshIn(_)
RECURSIVE FreshInArgs(_)
FreshInArgs(args) ==
  IF args = <<>> THEN 0 ELSE FreshIn(Head(args).e) + FreshInArgs(Tail(args))
FreshIn(e) ==
  CASE e.k = "lit" -> 1
    [] e.k = "call" -> IF e.id = Default THEN 0 ELSE 1 + FreshInArgs(e.args)
    [] e.k = "unary" -> FreshIn(e.inner) + 1
    [] e.k = "binary" -> FreshIn(e.left) + FreshIn(e.right) + 1
    [] e.k = "if" -> FreshIn(e.cond) + FreshIn(e.true_expr) + FreshIn(e.else_)
    [] e.k = "assign" ->
         IF e.lvalue.id = Default THEN 0 ELSE FreshIn(e.rvalue)
    [] OTHER -> 0

RECURSIVE EqsIn(_)
RECURSIVE EqsInArgs(_)
EqsInArgs(args) ==
  IF args = <<>> THEN 0 ELSE EqsIn(Head(args).e) + EqsInArgs(Tail(args))
EqsIn(e) ==
  CASE e.k = "lit" -> 1
    [] e.k = "call" -> IF e.id = Default THEN 0 ELSE 1 + EqsInArgs(e.args)
    [] e.k = "unary" -> EqsIn(e.inner) + 2
    [] e.k = "binary" -> EqsIn(e.left) + EqsIn(e.right) + 3
    [] e.k = "if" -> EqsIn(e.cond) + EqsIn(e.true_expr) + EqsIn(e.else_) + 2
    [] e.k = "assign" ->
         IF e.lvalue.id = Default THEN 0 ELSE EqsIn(e.rvalue) + 1
    [] OTHER -> 0

\* the node that belongs to e when e is visited after n fresh ids were
\* taken; NoType when e has no node of its own (an unresolved reference or
\* call, an assignment)
Fresh(i) == [t |-> "fresh", ix |-> <<i>>]
NodeOf(n, e) ==
  CASE e.k = "lit" -> Fresh(n + 1)
    [] e.k = "var" -> IF e.id = Default THEN NoType ELSE get_id(e.id)
    [] e.k = "call" -> IF e.id = Default THEN NoType ELSE Fresh(n + 1)
    [] e.k \in {"unary", "binary"} -> Fresh(n + FreshIn(e))
    [] OTHER -> NoType

Eq(lhs, rhs) == [lhs |-> lhs, rhs |-> rhs]
\* the equations and sources the step added, and those among the equations
\* that were added after the first k of them
AddedFrom(k) == SubSeq(tc'.equations, Len(tc.equations) + k + 1, Len(tc'.equations))
Added == AddedFrom(0)
AddedSources == SubSeq(tc'.sources, Len(tc.sources) + 1, Len(tc'.sources))
Times(seq, x) == Cardinality({i \in 1..Len(seq) : seq[i] = x})
PrimOf(v) ==
  CASE v = "bool" -> "Bool"
    [] v = "float" -> "Int"
    [] v = "unit" -> "Unary"

\* C11: visiting a literal takes one fresh id, adds the one equation that
\* binds it to Bool for a boolean, to the numeric primitive (Primitive::Int)
\* for a number and to Unary for the unit literal, and leaves the fresh id
\* as the checker's current result.
C11_LiteralTyping ==
  [][ExprStep("lit") =>
       /\ tc'.fresh = tc.fresh + 1
       /\ Added = <<Eq(Fresh(tc.fresh + 1), Known(PrimOf(last'.node.value.v)))>>
       /\ tc'.var_type_id = Fresh(tc.fresh + 1) ]_vars

\* a unit literal was visited after an earlier statement took fresh ids
C11_Witness ==
  /\ stage = "types"
  /\ last.node = ExprStmt(LitUnit)
  /\ tc.fresh >= 2
  /\ tc.var_type_id = Fresh(tc.fresh)

\* the equations a binary operation adds after visiting its operands
OpEqs(e) == AddedFrom(EqsIn(e.left) + EqsIn(e.right))
LeftNode(e) == NodeOf(tc.fresh, e.left)
RightNode(e) == NodeOf(tc.fresh + FreshIn(e.left), e.right)
ResultNode(e) == Fresh(tc.fresh + FreshIn(e))

\* C12: an arithmetic or comparison operation binds the node of each
\* operand that has one to the numeric primitive, binds a fresh node to the
\* numeric primitive (arithmetic) or to Bool (comparison) and to nothing
\* else, and leaves that fresh node as the current result.
C12_NumericOperators ==
  [][(ExprStep("binary") /\ last'.node.value.op \in ArithmeticOps \cup CompareOps) =>
       LET e == last'.node.value
           prim == IF e.op \in ArithmeticOps THEN "Int" ELSE "Bool"
       IN /\ LeftNode(e) # NoType
               => Times(OpEqs(e), Eq(LeftNode(e), Known("Int"))) >= 1
          /\ RightNode(e) # NoType
               => Times(OpEqs(e), Eq(RightNode(e), Known("Int"))) >= 1
          /\ \A i \in 1..Len(OpEqs(e)) :
               OpEqs(e)[i].lhs = ResultNode(e)
                 => OpEqs(e)[i].rhs = Known(prim)
          /\ Times(OpEqs(e), Eq(ResultNode(e), Known(prim))) = 1
          /\ tc'.fresh = tc.fresh + FreshIn(e)
          /\ tc'.var_type_id = ResultNode(e) ]_vars

\* a comparison of a boolean literal with a number was visited
C12_Witness ==
  /\ stage = "types"
  /\ last.node = ExprStmt(BinOp("GreaterThanEquals", LitBool, Lit))
  /\ tc.var_type_id = Fresh(tc.fresh)
  /\ Len(tc.equations) >= 5

\* TypeConcretifier's closure over node = node equations: the nodes chained
\* to those of S, and whether some chain carries two concrete types
Linked(eqs, a, b) ==
  \E i \in 1..Len(eqs) :
    /\ eqs[i].rhs.t = "Variable"
    /\ {eqs[i].lhs, eqs[i].rhs.ty} = {a, b}
NodesIn(eqs) ==
  {eqs[i].lhs : i \in 1..Len(eqs)}
    \cup {eqs[i].rhs.ty : i \in {j \in 1..Len(eqs) : eqs[j].rhs.t = "Variable"}}
RECURSIVE Chained(_, _)
Chained(eqs, S) ==
  LET T == S \cup {n \in NodesIn(eqs) : \E m \in S : Linked(eqs, m, n)}
  IN IF T = S THEN S ELSE Chained(eqs, T)
ConcreteOf(eqs, S) ==
  {eqs[i].rhs.prim :
     i \in {j \in 1..Len(eqs) : eqs[j].lhs \in S /\ eqs[j].rhs.t = "Known"}}
Mismatch(eqs) ==
  \E n \in NodesIn(eqs) : Cardinality(ConcreteOf(eqs, Chained(eqs, {n}))) > 1

\* C13: an equality operation on two operands with nodes adds left = right
\* and right = left and binds neither operand to a primitive; the equations
\* of a comparison of two literals are in conflict exactly when the literals
\* are of different types.
C13_EqualityOperands ==
  [][( /\ ExprStep("binary")
       /\ last'.node.value.op \in EqualityOps
       /\ LeftNode(last'.node.value) # NoType
       /\ RightNode(last'.node.value) # NoType ) =>
       LET e == last'.node.value
           l == LeftNode(e)
           r == RightNode(e)
       IN /\ Times(OpEqs(e), Eq(l, Variable(r))) = 1
          /\ Times(OpEqs(e), Eq(r, Variable(l))) = 1
          /\ \A i \in 1..Len(OpEqs(e)) :
               OpEqs(e)[i].lhs \in {l, r} => OpEqs(e)[i].rhs.t = "Variable"
          /\ (e.left.k = "lit" /\ e.right.k = "lit") =>
               (Mismatch(SubSeq(Added, 1, Len(Added) - 1))
                  <=> PrimOf(e.left.v) # PrimOf(e.right.v)) ]_vars

\* true != 1 was visited
C13_Witness ==
  /\ stage = "types"
  /\ last.node = ExprStmt(BinOp("NonEquality", LitBool, Lit))
  /\ Mismatch(tc.equations)

\* C14: the fresh result node of an equality operation is bound to Bool.
C14_EqualityIsBool ==
  [][(ExprStep("binary") /\ last'.node.value.op \in EqualityOps) =>
       Times(OpEqs(last'.node.value),
             Eq(ResultNode(last'.node.value), Known("Bool"))) = 1 ]_vars

\* the nodes of an if-expression's condition and branches
CondNode(e) == NodeOf(tc.fresh, e.cond)
TrueNode(e) == NodeOf(tc.fresh + FreshIn(e.cond), e.true_expr)
ElseNode(e) == NodeOf(tc.fresh + FreshIn(e.cond) + FreshIn(e.true_expr), e.else_)
Tag(ty, source) == [ty |-> ty, source |-> source]
BranchesAgree(e) ==
  /\ Added[Len(Added)] = Eq(TrueNode(e), Variable(ElseNode(e)))
  /\ Times(AddedSources, Tag(TrueNode(e), "IfBranchesSame")) >= 1
  /\ Times(AddedSources, Tag(ElseNode(e), "IfBranchesSame")) >= 1
Branching(e) == TrueNode(e) # NoType /\ ElseNode(e) # NoType

\* C15 as stated: after an if-expression whose branches have nodes, the
\* equation true branch = else branch was added, both nodes are tagged
\* IfBranchesSame and the current result is the true branch's node.
C15_ResultIsTrueBranch ==
  [][(ExprStep("if") /\ Branching(last'.node.value)) =>
       /\ BranchesAgree(last'.node.value)
       /\ tc'.var_type_id = TrueNode(last'.node.value) ]_vars

\* C15 amended: the same equation and tags, and the current result is the
\* else branch's node.
C15_ResultIsElseBranch ==
  [][(ExprStep("if") /\ Branching(last'.node.value)) =>
       /\ BranchesAgree(last'.node.value)
       /\ tc'.var_type_id = ElseNode(last'.node.value) ]_vars

\* an if-expression with a variable and a literal as branches was visited
C15_Witness ==
  /\ stage = "types"
  /\ last.node = ExprStmt(IfExpr(BinOp("LessThan", Lit, RefX), RefX, Lit))
  /\ tc.var_type_id = Fresh(tc.fresh)
  /\ tc.equations[Len(tc.equations)] = Eq(get_id(RefX.id), Variable(Fresh(tc.fresh)))

\* the fresh ids taken by the statements of a block; the blocks of the
\* model hold expression statements
RECURSIVE FreshInStmts(_)
FreshInStmts(stmts) ==
  IF stmts = <<>> THEN 0
  ELSE FreshIn(Head(stmts).value) + FreshInStmts(Tail(stmts))
FreshInBlock(b) == IF b.id = Default THEN 0 ELSE FreshInStmts(b.stmts)
\* the nodes of the conditions of an if-block's arms, the first visited
\* after n fresh ids were taken
RECURSIVE CondNodes(_, _)
CondNodes(cs, n) ==
  IF cs = <<>> THEN <<>>
  ELSE <<NodeOf(n, Head(cs).cond)>>
         \o CondNodes(Tail(cs), n + FreshIn(Head(cs).cond) + FreshInBlock(Head(cs).block))
AddedInferences ==
  SubSeq(tc'.inferences, Len(tc.inferences) + 1, Len(tc'.inferences))

\* C16: the node of an if-expression's condition is bound to Bool by the
\* equation that follows the condition's own, once; the node of the
\* condition of each arm of a visited if-block is bound to bool by one
\* inference of the graph.
C16_ConditionIsBool ==
  [][ /\ (ExprStep("if") /\ CondNode(last'.node.value) # NoType) =>
           LET e == last'.node.value IN
           /\ Added[EqsIn(e.cond) + 1] = Eq(CondNode(e), Known("Bool"))
           /\ Times(AddedFrom(EqsIn(e.cond)), Eq(CondNode(e), Known("Bool"))) = 1
      /\ (TypeStep /\ last'.node.k = "ifblock" /\ last'.node.id # Default) =>
           LET nodes == CondNodes(last'.node.conditionals, tc.fresh) IN
           \A i \in 1..Len(nodes) :
             nodes[i] # NoType =>
               Cardinality({j \in 1..Len(AddedInferences) :
                              /\ AddedInferences[j].from = nodes[i]
                              /\ AddedInferences[j].to = BoolType}) = 1 ]_vars

\* the nodes of a call's arguments, the first visited after n fresh ids
\* were taken
RECURSIVE ArgNodes(_, _)
ArgNodes(args, n) ==
  IF args = <<>> THEN <<>>
  ELSE <<NodeOf(n, Head(args).e)>> \o ArgNodes(Tail(args), n + FreshIn(Head(args).e))

\* C17: a call of a resolved callee takes a fresh id for its result, visits
\* every argument, and then adds one equation: the callee's node equals the
\* function type whose parameters map the name of each argument that has a
\* node to that node and whose return is the fresh id; the fresh id is
\* tagged CallReturnType and is the current result.
C17_CallEquation ==
  [][(ExprStep("call") /\ last'.node.value.id # Default) =>
       LET e == last'.node.value
           res == Fresh(tc.fresh + 1)
           nodes == ArgNodes(e.args, tc.fresh + 1)
           fn_eq == Added[Len(Added)]
       IN /\ tc'.fresh = tc.fresh + 1 + FreshInArgs(e.args)
          /\ Len(Added) = EqsInArgs(e.args) + 1
          /\ fn_eq.lhs = get_id(e.id)
          /\ fn_eq.rhs.t = "Fn"
          /\ fn_eq.rhs.ret = res
          /\ {p.name : p \in fn_eq.rhs.params}
               = {e.args[i].name : i \in 1..Len(e.args)}
          /\ \A i \in 1..Len(e.args) :
               nodes[i] # NoType
                 => [name |-> e.args[i].name, ty |-> nodes[i]] \in fn_eq.rhs.params
          /\ Times(AddedSources, Tag(res, "CallReturnType")) = 1
          /\ tc'.var_type_id = res ]_vars

\* a call with a literal argument and an implicit argument was visited
C17_Witness ==
  /\ stage = "types"
  /\ last.node.k = "expr"
  /\ last.node.value.k = "call"
  /\ last.node.value.id # Default
  /\ Len(last.node.value.args) = 2
  /\ tc.var_type_id = Fresh(tc.fresh - 1)
  /\ tc.equations[Len(tc.equations)].lhs = get_id(last.node.value.id)

\* C18: a return statement adds exactly one equation on the function's
\* return type node, return type = the returned expression's node, or
\* return type = Unary without a value, and adds no equation on the
\* "no type" node.
C18_ReturnEquation ==
  [][(TypeStep /\ last'.node.k = "return") =>
       LET v == last'.node.value
           own == IF v = NoNode THEN 0 ELSE EqsIn(v)
           rhs == IF v = NoNode THEN Known("Unary")
                  ELSE Variable(NodeOf(tc.fresh, v))
       IN /\ \A i \in 1..Len(Added) : Added[i].lhs # NoType
          /\ Len(AddedFrom(own)) = 1
          /\ AddedFrom(own)[1].lhs = tc.return_ty_id
          /\ (v = NoNode \/ NodeOf(tc.fresh, v) # NoType)
               => AddedFrom(own)[1].rhs = rhs ]_vars

\* C20: the node an operation constrains for a sub-expression is that
\* sub-expression's own; for a right operand or a declaration's initializer
\* without a node of its own it is not the node of the left operand nor the
\* node an earlier statement left as the current result.
C20_NoStaleNode ==
  [][ /\ ExprStep("binary") =>
           LET e == last'.node.value
               read == OpEqs(e)[2].lhs
           IN IF RightNode(e) # NoType THEN read = RightNode(e)
              ELSE read \notin ({LeftNode(e), tc.var_type_id} \ {NoType})
      /\ (TypeStep /\ last'.node.k = "decl") =>
           LET v == last'.node.value
               read == Added[Len(Added)].rhs.ty
           IN IF NodeOf(tc.fresh, v) # NoType THEN read = NodeOf(tc.fresh, v)
              ELSE read \notin ({tc.var_type_id} \ {NoType}) ]_vars

\* C22: a reference to the declared name in a declaration's own initializer
\* gets what the name resolved to before the declaration, the id of an
\* enclosing binding or none, and never the id snapshotted for the
\* declaration itself.
C22_InitializerFirst ==
  [][( /\ DeclStep
       /\ last'.node.value.k = "var"
       /\ last'.node.value.name = last'.node.name ) =>
       /\ last'.node.value.id # last'.decl_id
       /\ last'.node.value.id
            = (IF get(scopes, last'.node.name) # None
               THEN get(scopes, last'.node.name) ELSE Default) ]_vars

\* let x = x was handled where no scope binds x, and x got an id
C22_Witness ==
  /\ last.node.k = "decl"
  /\ last.node.value.k = "var"
  /\ last.node.value.name = last.node.name
  /\ last.node.value.id = Default
  /\ last.decl_id # None

\* C21: check_block is balanced.  When it returns, the scope-table stack is
\* the one it was entered with (same depth, no binding of the block left),
\* the cursor has the depth it had on entry and its innermost level is one
\* greater, every id snapshotted inside the block lies below the cursor of
\* entry, and no id snapshotted so far occurs twice.
BlockStep == last'.node.k = "block" /\ blocks' = blocks - 1 /\ depth' = depth
IdsApart(ids) == \A i, j \in 1..Len(ids) : i # j => ids[i] # ids[j]
C21_BlockBalanced ==
  [][ /\ BlockStep =>
           /\ Len(scopes') = Len(scopes)
           /\ scopes' = scopes
           /\ Len(current_id') = Len(current_id)
           /\ current_id' = increment(current_id)
           /\ current_id'[Len(current_id)] = current_id[Len(current_id)] + 1
           /\ \A i \in (Len(given) + 1)..Len(given') :
                /\ Len(given'[i]) > Len(current_id)
                /\ SubSeq(given'[i], 1, Len(current_id)) = current_id
      /\ IdsApart(given') ]_vars

\* a block holding a declaration and a nested block with a declaration has
\* returned, and a declaration after it got an id
C21_Witness ==
  /\ blocks < MaxBlocks
  /\ last.node.k = "decl"
  /\ last.decl_id # None
  /\ Len(last.decl_id) = Len(current_id)
  /\ \E i, j \in 1..Len(given) :
       /\ Len(given[i]) = Len(current_id) + 1
       /\ Len(given[j]) = Len(current_id) + 2

\* C23: every equation has as its left node, and as the node its right side
\* refers to, a node registered before (a fresh node already taken, a
\* binding's node, a concrete-type node), and the default node NoType is
\* the subject of no equation and of no source tag.
Registered(c, ty) ==
  /\ ty # NoType
  /\ ty.t = "fresh" => ty.ix[1] \in 1..c.fresh
  /\ ty.t = "var" => ty.ix # Default
C23_RegisteredNodes ==
  /\ \A i \in 1..Len(tc.equations) :
       /\ Registered(tc, tc.equations[i].lhs)
       /\ tc.equations[i].rhs.t = "Variable" =>
            Registered(tc, tc.equations[i].rhs.ty)
  /\ \A i \in 1..Len(tc.sources) : Registered(tc, tc.sources[i].ty)

\* C24: a function declaration with a resolved id adds the inference from
\* its variable node to its function-type node, then one inference per
\* parameter from the parameter's node to its declared type's node, then
\* what the body adds, and then, exactly when the declared return type is
\* not unit, one inference from the node of the body's trailing expression
\* to the declared return type; a declaration without a resolved id adds
\* nothing.
ItemStep == last'.node.k = "fn" /\ item_ix' = item_ix + 1
NewInferences ==
  SubSeq(tc'.inferences, Len(tc.inferences) + 1, Len(tc'.inferences))
Trailing(block) == block.stmts[Len(block.stmts)]
C24_FnDeclEquations ==
  [][ItemStep =>
       LET f == last'.node
           n == Len(f.params)
           body == visit_block(tc, f.block)
           inBody == Len(body.inferences) - Len(tc.inferences)
       IN IF f.id = Default THEN tc' = tc
          ELSE f.has_type =>
            /\ NewInferences[1] =
                 [from |-> add_variable(f.id), to |-> add_concrete(f.id),
                  source |-> "FunctionSignature"]
            /\ \A i \in 1..n :
                 NewInferences[i + 1] =
                   [from |-> add_variable(f.params[i].id),
                    to |-> add_concrete(f.params[i].ty_id),
                    source |-> "FnParameter"]
            /\ Len(NewInferences) =
                 1 + n + inBody + (IF f.return_type # UnitType THEN 1 ELSE 0)
            /\ ( /\ f.return_type # UnitType
                 /\ f.block.id # Default
                 /\ f.block.stmts # <<>>
                 /\ Trailing(f.block).k = "expr" ) =>
                 LET e == Trailing(f.block).value
                     ret == NewInferences[Len(NewInferences)]
                 IN /\ ret.to = add_concrete(f.return_type)
                    /\ ret.from \notin {NoIndex, NoType}
                    /\ NodeOf(tc'.fresh - FreshIn(e), e) # NoType =>
                         ret.from = NodeOf(tc'.fresh - FreshIn(e), e) ]_vars

\* C25 as stated: an operation aborts the pass exactly when an operator in
\* it is the custom placeholder, in unary and in binary position alike, and
\* the error list is left as it was.
RECURSIVE HasCustom(_)
HasCustom(e) ==
  CASE e.k = "unary" -> e.op = "Custom" \/ HasCustom(e.inner)
    [] e.k = "binary" -> e.op = "Custom" \/ HasCustom(e.left) \/ HasCustom(e.right)
    [] OTHER -> FALSE
RECURSIVE Panics(_)
Panics(e) ==
  CASE e.k = "unary" ->
         e.op \notin {"Addition", "Subtraction"} \/ Panics(e.inner)
    [] e.k = "binary" -> e.op = "Custom" \/ Panics(e.left) \/ Panics(e.right)
    [] OTHER -> FALSE
CompileStep == budget' = budget - 1 /\ mc'.panic = "none"
Depth(g) == Len(g.ir_code)
\* the block in which the code that starts in block b ends: a conditional
\* branch opens an if-expression, which goes on in its merge block
RECURSIVE EndBlock(_, _)
EndBlock(bl, b) ==
  IF bl[b].term.op = "cond_br"
  THEN EndBlock(bl, bl[EndBlock(bl, bl[b].term.then)].term.to)
  ELSE b
NewCondBranches ==
  {b \in 1..Len(mc'.blocks) :
     /\ mc'.blocks[b].term.op = "cond_br"
     /\ b \in 1..Len(mc.blocks) => mc.blocks[b].term.op # "cond_br"}

\* C26: compiling a valued if-block builds one conditional branch per arm
\* and leaves a merge value with one incoming value per arm (the else arm
\* included); compiling an if-expression leaves a phi with exactly two
\* incoming values, the first from the block that ends the then branch and
\* the second from the block that ends the else branch, both of which
\* branch to the phi's block.
C26_BranchWiring ==
  [][CompileStep =>
       /\ (last'.node.k = "ifblock" /\ last'.node.has_value) =>
            LET n == Len(last'.node.conditionals)
                arms == n + (IF last'.node.else_ # NoNode THEN 1 ELSE 0)
            IN /\ Cardinality(NewCondBranches) = n
               /\ Depth(mc') = Depth(mc) + 1
               /\ ir_top(mc').op = "phi"
               /\ Len(ir_top(mc').incoming) = arms
       /\ (last'.node.k = "expr" /\ last'.node.value.k = "if") =>
            LET e == last'.node.value
                phi == ir_top(mc')
                br == mc'.blocks[mc.insert].term
            IN /\ phi.op = "phi"
               /\ br.op = "cond_br"
               /\ Len(phi.incoming) = 2
               /\ phi.incoming[1].block = EndBlock(mc'.blocks, br.then)
               /\ phi.incoming[2].block = EndBlock(mc'.blocks, br.else_)
               /\ \A i \in 1..2 :
                    mc'.blocks[phi.incoming[i].block].term =
                      [op |-> "br", to |-> phi.at]
               /\ e.true_expr.k = "lit" =>
                    phi.incoming[1].value = const(e.true_expr.value)
               /\ e.else_.k = "lit" =>
                    phi.incoming[2].value = const(e.else_.value) ]_vars

\* C27: compiling a value-producing expression (literal, variable
\* reference, unary or binary operation, if-expression, valued if-block)
\* leaves ir_code one element deeper, compiling a declaration, an
\* assignment or a return leaves its depth as it was, and no pop finds
\* ir_code empty.
ValueKinds == {"lit", "var", "unary", "binary", "if"}
C27_StackDiscipline ==
  [][budget' = budget - 1 =>
       /\ mc'.panic # "empty stack"
       /\ mc'.panic = "none" =>
            LET node == last'.node IN
            /\ (node.k = "expr" /\ node.value.k \in ValueKinds) =>
                 Depth(mc') = Depth(mc) + 1
            /\ (node.k = "ifblock" /\ node.has_value) =>
                 Depth(mc') = Depth(mc) + 1
            /\ ( \/ node.k \in {"decl", "return"}
                 \/ (node.k = "expr" /\ node.value.k = "assign") ) =>
                 Depth(mc') = Depth(mc) ]_vars

\* the value of a compiled term when the function runs from block b, with
\* pred the block each block was entered from; a comparison yields 1 or 0
Holds(pred, l, r) ==
  CASE pred = "OEQ" -> l = r
    [] pred = "ONE" -> l # r
    [] pred = "OLT" -> l < r
    [] pred = "OLE" -> l <= r
    [] pred = "OGT" -> l > r
    [] pred = "OGE" -> l >= r
RECURSIVE Eval(_, _)
Eval(v, pred) ==
  CASE v.op = "const" -> v.value
    [] v.op = "neg" -> 0 - Eval(v.v, pred)
    [] v.op = "fadd" -> Eval(v.l, pred) + Eval(v.r, pred)
    [] v.op = "fsub" -> Eval(v.l, pred) - Eval(v.r, pred)
    [] v.op = "fmul" -> Eval(v.l, pred) * Eval(v.r, pred)
    [] v.op = "fcmp" ->
         IF Holds(v.pred, Eval(v.l, pred), Eval(v.r, pred)) THEN 1 ELSE 0
    [] v.op = "uitofp" -> Eval(v.v, pred)
    [] v.op = "phi" ->
         LET i == CHOOSE j \in 1..Len(v.incoming) :
                    v.incoming[j].block = pred[v.at]
         IN Eval(v.incoming[i].value, pred)
RECURSIVE Walk(_, _, _)
Walk(bl, b, pred) ==
  LET t == bl[b].term IN
  CASE t.op = "none" -> pred
    [] t.op = "br" -> Walk(bl, t.to, [pred EXCEPT ![t.to] = b])
    [] t.op = "cond_br" ->
         LET to == IF Eval(t.cond, pred) = 1 THEN t.then ELSE t.else_
         IN Walk(bl, to, [pred EXCEPT ![to] = b])
\* the value of an expression of the source, truth being 1 and 0
RECURSIVE Value(_)
Value(e) ==
  CASE e.k = "lit" -> e.value
    [] e.k = "unary" -> 0 - Value(e.inner)
    [] e.k = "binary" ->
         IF e.op \in ArithmeticOps
         THEN Eval(build_arith(Opcode(e.op), const(Value(e.left)),
                               const(Value(e.right))), <<>>)
         ELSE Eval(build_fcmp(Predicate(e.op), const(Value(e.left)),
                              const(Value(e.right))), <<>>)
    [] e.k = "if" ->
         IF Value(e.cond) # 0 THEN Value(e.true_expr) ELSE Value(e.else_)

\* C28: the value a compiled if-expression yields when the function runs
\* is the value of its then branch when the condition is true (not zero)
\* and of its else branch when it is false (zero), and the then block is
\* entered exactly when the condition is true.
C28_BranchPolarity ==
  [][(CompileStep /\ last'.node.k = "expr" /\ last'.node.value.k = "if") =>
       LET e == last'.node.value
           pred == Walk(mc'.blocks, mc.insert,
                        [b \in 1..Len(mc'.blocks) |-> 0])
           then_block == mc'.blocks[mc.insert].term.then
       IN /\ Eval(ir_top(mc'), pred) = Value(e)
          /\ pred[then_block] # 0 <=> Value(e.cond) # 0 ]_vars

====
